---- MODULE Spec2Model ----
(***************************************************************************)
(* Case-management business rules of the repository:                      *)
(*   - SingleActiveCaseEnforcementPlugin (s2_plugin), the server-side     *)
(*     gate run on the Create message of a case;                          *)
(*   - IncidentPrimaryContactValidationPlugin, the server-side gate that  *)
(*     checks a case's contact against its customer account;              *)
(*   - caseFormAvailableCommunicationChannelsUpdate, the form script that *)
(*     derives the available communication channels of a contact.         *)
(* Each component has its own specification over a shared set of          *)
(* variables; the variables of the other components stay idle.            *)
(***************************************************************************)
EXTENDS Integers, Sequences, FiniteSets, TLC

VARIABLES
    store,        \* record store: case id -> case record or Null
    sacInput,     \* plugin context handed to the last plugin execution
    sacFault,     \* TRUE iff RetrieveMultiple faulted in the last execution
    sacOutcome,   \* "none" | "pass" | "violation" | "error"
    sacMessage,   \* message of the exception thrown, Null when none
    sacMatched,   \* id of the case returned by the top-1 query, 0 when none
    sacQueries,   \* number of queries issued by the last execution
    sacBefore,    \* record store as the last execution found it
    sacException, \* type of the exception the last execution threw, or "none"
    sacResult,    \* collection the query of the last execution returned
    pc,           \* concurrent creations: position of each creation
    pInput,       \* concurrent creations: plugin context of each creation
    registered,   \* plug-in step registered on the case entity
    contacts,     \* record store: contact id -> contact record or Null
    ccInput,      \* plugin context of the last validation
    ccCase,       \* case snapshot the last validation checked
    ccFault,      \* TRUE iff the contact Retrieve faulted
    ccOutcome,    \* "none" | "pass" | "violation" | "error"
    ccMessage,    \* message of the exception thrown, Null when none
    ccFetches,    \* number of Retrieve calls issued by the last validation
    chContact,    \* form script: contact record handed to the evaluation
    chAvailable,  \* form script: availability computed for each channel
    chPc,         \* form script: "retrieved" | "evaluated"
    form,         \* case form: layout, field values, visibility, requirement
    accounts,     \* record store: account id -> account record
    contactRecords, \* record store: contact id -> contact record of the form
    inv,          \* invocations of the form's event handlers
    resolvedFor   \* contact lookup last resolved for each customer value

sacVars == <<store, sacInput, sacFault, sacOutcome, sacMessage, sacMatched,
             sacQueries, sacBefore, sacException, sacResult>>
concVars == <<pc, pInput>>
ccVars == <<contacts, ccInput, ccCase, ccFault, ccOutcome, ccMessage, ccFetches>>
chVars == <<chContact, chAvailable, chPc>>
formVars == <<form, accounts, contactRecords, inv, resolvedFor>>
vars == <<registered, sacVars, concVars, ccVars, chVars, formVars>>

----------------------------------------------------------------------------
(* Bounds *)

MaxCases == 2
NumCreators == 2
MaxLen == 2
MaxHandlers == 2

----------------------------------------------------------------------------
(* Values *)

\* C# null / absent reference
Null == [null |-> TRUE]

\* System.String values are wrapped so that they compare with Null
Str(s) == [text |-> s]

AccountLogicalName == "account"
ContactLogicalName == "contact"
EntityLogicalName == "incident"

EntityReference(id, logicalName) == [id |-> id, logicalName |-> logicalName]

\* customers known to the record store: one account and one contact
CustomerRefs ==
    { EntityReference(1, AccountLogicalName),
      EntityReference(2, ContactLogicalName) }

Titles == { Str("Billing dispute"), Str("Router fault") }

caseActiveStatusCode == 0

\* the active state and one state a closed case is in
StateCodes == { caseActiveStatusCode, caseActiveStatusCode + 1 }

CaseIds == 1..MaxCases

\* an incident row of the record store
CaseRows ==
    [ customerid : CustomerRefs,
      statecode  : StateCodes,
      title      : Titles \cup {Null} ]

\* stores are filled from id 1 upwards
Stores ==
    { s \in [CaseIds -> CaseRows \cup {Null}] :
        \A i \in CaseIds : (i > 1 /\ s[i] # Null) => s[i - 1] # Null }

StoredIds(s) == { i \in CaseIds : s[i] # Null }

\* string concatenation of C#: a null operand concatenates as the empty string
Concat(prefix, s) == IF s = Null THEN prefix ELSE prefix \o s.text

----------------------------------------------------------------------------
(* SingleActiveCaseEnforcementPlugin *)

\* the Target entity of the Create message
TargetEntities ==
    [ logicalName : {EntityLogicalName},
      customerid  : CustomerRefs \cup {Null},
      title       : Titles \cup {Null} ]
    \cup
    { [ logicalName |-> AccountLogicalName, customerid |-> Null,
        title |-> Null ] }

\* the local plugin context: null, or a context with or without a Target
SacInputs ==
    { [ contextIsNull |-> TRUE, target |-> Null ] }
    \cup
    [ contextIsNull : {FALSE}, target : TargetEntities \cup {Null} ]

ActiveCaseMessagePrefix == "An active case already exists for this customer: "

\* outcome of one plugin execution
Result(outcome, exception, message, matched, queries) ==
    [ outcome |-> outcome, exception |-> exception, message |-> message,
      matched |-> matched, queries |-> queries ]

\* variant: the state condition is left out of the filter
BuildActiveCasesForCustomerFilter_AnyState(row, customerId) ==
    row.customerid.id = customerId

\* variant: the filter asks for the wrong state code
BuildActiveCasesForCustomerFilter_Resolved(row, customerId) ==
    /\ row.statecode = caseActiveStatusCode + 1
    /\ row.customerid.id = customerId

\* the two conditions of the query filter, applied to one stored row
BuildActiveCasesForCustomerFilter(row, customerId) ==
    /\ row.statecode = caseActiveStatusCode
    /\ row.customerid.id = customerId

\* rows the query selects
MatchingIds(s, customerId) ==
    { i \in StoredIds(s) : BuildActiveCasesForCustomerFilter(s[i], customerId) }

\* an EntityCollection, its entities given by their ids
EntityCollection(entities) == [ Entities |-> entities ]

\* no collection: no query was issued, or the query faulted
NoCollection == [ none |-> TRUE ]

\* the collections a TopCount = 1 query may return: no ordering is requested,
\* so any one of the matching rows, or the empty collection when none matches
RetrieveMultiple(s, customerId) ==
    IF MatchingIds(s, customerId) = {}
    THEN { EntityCollection(<<>>) }
    ELSE { EntityCollection(<<i>>) : i \in MatchingIds(s, customerId) }

\* first entity of the collection, 0 standing for the null Case
GetFirstCaseFromCollectionOrNull(result) ==
    IF result = Null \/ Len(result.Entities) = 0
    THEN 0
    ELSE Head(result.Entities)

\* variant: the message carries the title of the target case
GuardThatCustomerHasNoActiveCases_TargetTitle(s, targetCase, fault, result) ==
    IF targetCase.customerid = Null
    THEN Result("error", "NullReferenceException", Null, 0, 0)
    ELSE IF fault
    THEN Result("error", "FaultException", Null, 0, 1)
    ELSE LET found == GetFirstCaseFromCollectionOrNull(result) IN
         IF found # 0
         THEN Result("violation", "InvalidPluginExecutionException",
                     Str(Concat(ActiveCaseMessagePrefix, targetCase.title)),
                     found, 1)
         ELSE Result("pass", "none", Null, 0, 1)

\* variant: a faulted query is swallowed and read as "no active case"
GuardThatCustomerHasNoActiveCases_FaultSwallowed(s, targetCase, fault, result) ==
    IF targetCase.customerid = Null
    THEN Result("error", "NullReferenceException", Null, 0, 0)
    ELSE IF fault
    THEN Result("pass", "none", Null, 0, 1)
    ELSE LET found == GetFirstCaseFromCollectionOrNull(result) IN
         IF found # 0
         THEN Result("violation", "InvalidPluginExecutionException",
                     Str(Concat(ActiveCaseMessagePrefix, s[found].title)),
                     found, 1)
         ELSE Result("pass", "none", Null, 0, 1)


\* variant: a target without a customer is reported as a rule violation
GuardThatCustomerHasNoActiveCases_NullCustomerRejected(s, targetCase, fault, result) ==
    IF targetCase.customerid = Null
    THEN Result("violation", "InvalidPluginExecutionException", Null, 0, 0)
    ELSE IF fault
    THEN Result("error", "FaultException", Null, 0, 1)
    ELSE LET found == GetFirstCaseFromCollectionOrNull(result) IN
         IF found # 0
         THEN Result("violation", "InvalidPluginExecutionException",
                     Str(Concat(ActiveCaseMessagePrefix, s[found].title)),
                     found, 1)
         ELSE Result("pass", "none", Null, 0, 1)


\* variant: a null result collection is dereferenced
GuardThatCustomerHasNoActiveCases_NullResultThrows(s, targetCase, fault, result) ==
    IF targetCase.customerid = Null
    THEN Result("error", "NullReferenceException", Null, 0, 0)
    ELSE IF fault
    THEN Result("error", "FaultException", Null, 0, 1)
    ELSE IF result = Null
    THEN Result("error", "NullReferenceException", Null, 0, 1)
    ELSE LET found == GetFirstCaseFromCollectionOrNull(result) IN
         IF found # 0
         THEN Result("violation", "InvalidPluginExecutionException",
                     Str(Concat(ActiveCaseMessagePrefix, s[found].title)),
                     found, 1)
         ELSE Result("pass", "none", Null, 0, 1)

\* the guard proper: throws when the query returned a case
GuardThatCustomerHasNoActiveCases(s, targetCase, fault, result) ==
    IF targetCase.customerid = Null
    THEN Result("error", "NullReferenceException", Null, 0, 0)
    ELSE IF fault
    THEN Result("error", "FaultException", Null, 0, 1)
    ELSE LET found == GetFirstCaseFromCollectionOrNull(result) IN
         IF found # 0
         THEN Result("violation", "InvalidPluginExecutionException",
                     Str(Concat(ActiveCaseMessagePrefix, s[found].title)),
                     found, 1)
         ELSE Result("pass", "none", Null, 0, 1)


\* variant: the cast accepts an entity of any logical name
ReadTargetCase_AnyEntity(input) ==
    IF input.target = Null
    THEN Result("error", "ArgumentException", Str("Target is null"), 0, 0)
    ELSE Result("pass", "none", Null, 0, 0)

\* Case constructor reached through the explicit cast in ReadTargetCase
ReadTargetCase(input) ==
    IF input.target = Null
    THEN Result("error", "ArgumentException", Str("Target is null"), 0, 0)
    ELSE IF input.target.logicalName # EntityLogicalName
    THEN Result("error", "ArgumentException",
                Str("Entity must be of type incident"), 0, 0)
    ELSE Result("pass", "none", Null, 0, 0)

\* plugin entry point
ExecuteDataversePlugin(s, input, fault, result) ==
    IF input.contextIsNull
    THEN Result("error", "ArgumentNullException", Null, 0, 0)
    ELSE IF ReadTargetCase(input).outcome # "pass"
    THEN ReadTargetCase(input)
    ELSE GuardThatCustomerHasNoActiveCases(s, input.target, fault, result)

\* customer id the query of an execution is built for (0 when none is built)
QueriedCustomerId(input) ==
    IF input.target = Null \/ input.target.customerid = Null
    THEN 0
    ELSE input.target.customerid.id

\* the platform commits the created case, active, under the next free id
NextFreeId(s) == Cardinality(StoredIds(s)) + 1

CommitCreate(s, target) ==
    [ s EXCEPT ![NextFreeId(s)] =
        [ customerid |-> target.customerid,
          statecode  |-> caseActiveStatusCode,
          title      |-> target.title ] ]


\* variant: a rejected creation deactivates the case the query returned
CreateCase_ViolationDeactivatesMatched ==
    /\ registered = "SingleActiveCaseEnforcement"
    /\ \E input \in SacInputs, fault \in BOOLEAN :
      \E result \in RetrieveMultiple(store, QueriedCustomerId(input)) :
        LET r == ExecuteDataversePlugin(store, input, fault, result) IN
        /\ r.outcome = "pass" => NextFreeId(store) <= MaxCases
        /\ sacInput' = input
        /\ sacFault' = (fault /\ r.queries > 0)
        /\ sacOutcome' = r.outcome
        /\ sacMessage' = r.message
        /\ sacMatched' = r.matched
        /\ sacQueries' = r.queries
        /\ sacBefore' = store
        /\ sacException' = r.exception
        /\ sacResult' = IF r.queries > 0 /\ ~fault THEN result
                        ELSE NoCollection
        /\ store' = IF r.outcome = "pass"
                    THEN CommitCreate(store, input.target)
                    ELSE IF r.outcome = "violation"
                    THEN [ store EXCEPT ![r.matched].statecode =
                                            caseActiveStatusCode + 1 ]
                    ELSE store
        /\ UNCHANGED <<registered, concVars, ccVars, chVars, formVars>>

\* one Create message, plugin and commit in one transaction step
CreateCase ==
    /\ registered = "SingleActiveCaseEnforcement"
    /\ \E input \in SacInputs, fault \in BOOLEAN :
      \E result \in RetrieveMultiple(store, QueriedCustomerId(input)) :
        LET r == ExecuteDataversePlugin(store, input, fault, result) IN
        /\ r.outcome = "pass" => NextFreeId(store) <= MaxCases
        /\ sacInput' = input
        /\ sacFault' = (fault /\ r.queries > 0)
        /\ sacOutcome' = r.outcome
        /\ sacMessage' = r.message
        /\ sacMatched' = r.matched
        /\ sacQueries' = r.queries
        /\ sacBefore' = store
        /\ sacException' = r.exception
        /\ sacResult' = IF r.queries > 0 /\ ~fault THEN result
                        ELSE NoCollection
        /\ store' = IF r.outcome = "pass"
                    THEN CommitCreate(store, input.target)
                    ELSE store
        /\ UNCHANGED <<registered, concVars, ccVars, chVars, formVars>>

----------------------------------------------------------------------------
(* Concurrent Create messages: the plugin of one creation runs as one step, *)
(* the platform's commit of that creation is a later step.                  *)

Creators == 1..NumCreators

\* every customer has at most one active case
AtMostOneActiveCase(s) ==
    \A i, j \in StoredIds(s) :
        ( /\ s[i].statecode = caseActiveStatusCode
          /\ s[j].statecode = caseActiveStatusCode
          /\ s[i].customerid.id = s[j].customerid.id ) => i = j

\* the plugin of creation p runs against the store as it is now
PluginRuns(p) ==
    /\ registered = "SingleActiveCaseEnforcement"
    /\ pc[p] = "idle"
    /\ \E input \in SacInputs, fault \in BOOLEAN :
         \E result \in RetrieveMultiple(store, QueriedCustomerId(input)) :
           LET r == ExecuteDataversePlugin(store, input, fault, result) IN
           /\ pInput' = [ pInput EXCEPT ![p] = input ]
           /\ pc' = [ pc EXCEPT ![p] =
                        IF r.outcome = "pass" THEN "validated" ELSE "aborted" ]
    /\ UNCHANGED <<registered, sacVars, ccVars, chVars, formVars>>

\* the platform commits creation p, which its plugin let through
PlatformCommits(p) ==
    /\ pc[p] = "validated"
    /\ NextFreeId(store) <= MaxCases
    /\ store' = CommitCreate(store, pInput[p].target)
    /\ pc' = [ pc EXCEPT ![p] = "committed" ]
    /\ UNCHANGED <<sacInput, sacFault, sacOutcome, sacMessage, sacMatched,
                   sacQueries, sacBefore, sacException, sacResult, pInput,
                   registered, ccVars, chVars, formVars>>

----------------------------------------------------------------------------
(* The organization service hands back null instead of a collection *)

\* one Create message whose query is answered with a null EntityCollection
CreateCaseNullCollection ==
    /\ registered = "SingleActiveCaseEnforcement"
    /\ \E input \in SacInputs :
        LET r == ExecuteDataversePlugin(store, input, FALSE, Null) IN
        /\ r.queries > 0
        /\ r.outcome = "pass" => NextFreeId(store) <= MaxCases
        /\ sacInput' = input
        /\ sacFault' = FALSE
        /\ sacOutcome' = r.outcome
        /\ sacMessage' = r.message
        /\ sacMatched' = r.matched
        /\ sacQueries' = r.queries
        /\ sacBefore' = store
        /\ sacException' = r.exception
        /\ sacResult' = Null
        /\ store' = IF r.outcome = "pass"
                    THEN CommitCreate(store, input.target)
                    ELSE store
        /\ UNCHANGED <<registered, concVars, ccVars, chVars, formVars>>

----------------------------------------------------------------------------
(* Update messages on stored cases *)

OptionSetValue(v) == [ Value |-> v ]

\* the Target entity of an Update message: the id of a stored case and the
\* attributes the update changes
UpdateTargets(s) ==
    [ logicalName : {EntityLogicalName},
      id          : StoredIds(s),
      customerid  : CustomerRefs \cup {Null},
      statecode   : { OptionSetValue(v) : v \in StateCodes } \cup {Null},
      title       : {Null} ]

\* the platform commits the update: the attributes of the Target overlay
\* the stored row
CommitUpdate(s, target) ==
    [ s EXCEPT ![target.id] =
        [ customerid |-> IF target.customerid = Null
                         THEN s[target.id].customerid
                         ELSE target.customerid,
          statecode  |-> IF target.statecode = Null
                         THEN s[target.id].statecode
                         ELSE target.statecode.Value,
          title      |-> s[target.id].title ] ]

\* one Update message with the plug-in registered on Create only: the
\* platform commits, and the message has no plug-in execution to observe
UpdateCase ==
    /\ registered = "SingleActiveCaseEnforcement"
    /\ \E target \in UpdateTargets(store) :
         store' = CommitUpdate(store, target)
    /\ sacInput' = [ contextIsNull |-> TRUE, target |-> Null ]
    /\ sacFault' = FALSE
    /\ sacOutcome' = "none"
    /\ sacMessage' = Null
    /\ sacMatched' = 0
    /\ sacQueries' = 0
    /\ sacBefore' = store'
    /\ sacException' = "none"
    /\ sacResult' = NoCollection
    /\ UNCHANGED <<registered, concVars, ccVars, chVars, formVars>>

\* one Update message with the plug-in's step registered on Update: the
\* plug-in runs on the Target before the platform commits
UpdateCaseChecked ==
    /\ registered = "SingleActiveCaseEnforcement (Update)"
    /\ \E target \in UpdateTargets(store), fault \in BOOLEAN :
       LET input == [ contextIsNull |-> FALSE, target |-> target ] IN
       \E result \in RetrieveMultiple(store, QueriedCustomerId(input)) :
        LET r == ExecuteDataversePlugin(store, input, fault, result) IN
        /\ sacInput' = input
        /\ sacFault' = (fault /\ r.queries > 0)
        /\ sacOutcome' = r.outcome
        /\ sacMessage' = r.message
        /\ sacMatched' = r.matched
        /\ sacQueries' = r.queries
        /\ sacBefore' = store
        /\ sacException' = r.exception
        /\ sacResult' = IF r.queries > 0 /\ ~fault THEN result
                        ELSE NoCollection
        /\ store' = IF r.outcome = "pass"
                    THEN CommitUpdate(store, target)
                    ELSE store
        /\ UNCHANGED <<registered, concVars, ccVars, chVars, formVars>>

----------------------------------------------------------------------------
(* IncidentPrimaryContactValidationPlugin *)

\* attribute missing from an entity's attribute collection
Absent == [absent |-> TRUE]

ContactIds == { 2, 3 }
ContactRefs == { EntityReference(i, ContactLogicalName) : i \in ContactIds }

\* values of the customer lookup: an account, a contact, another entity type
CaseCustomerRefs ==
    { EntityReference(1, AccountLogicalName),
      EntityReference(2, ContactLogicalName),
      EntityReference(5, "lead") }

\* values of a contact's parentcustomerid
ParentRefs ==
    { EntityReference(1, AccountLogicalName),
      EntityReference(4, AccountLogicalName) }

ContactRows == [ parentcustomerid : ParentRefs \cup {Null} ]

\* contact table: a contact id without a row makes Retrieve fault
ContactStores == [ ContactIds -> ContactRows \cup {Null} ]

\* the image registered under the alias, when the step has one
PreEntityImages ==
    [ primarycontactid : { EntityReference(2, ContactLogicalName), Null },
      customerid       : { EntityReference(1, AccountLogicalName),
                           EntityReference(5, "lead"), Null } ]

\* the Target: each attribute is missing, explicitly null, or a reference
ValidationTargets ==
    [ primarycontactid : ContactRefs \cup {Null, Absent},
      customerid       : CaseCustomerRefs \cup {Null, Absent} ]

CcInputs ==
    { [ contextIsNull |-> TRUE, preImage |-> Null, target |-> Null ] }
    \cup
    [ contextIsNull : {FALSE},
      preImage      : PreEntityImages \cup {Null},
      target        : ValidationTargets \cup {Null} ]

\* the Case model of the validation plugin
Case(contact, customer) == [ Contact |-> contact, Customer |-> customer ]

NotAssociatedMessage == "The contact is not associated with the customer."

\* pre-image cast to a Case, or a Case with null properties
GetPreEntityImage(input) ==
    IF input.preImage # Null
    THEN Case(input.preImage.primarycontactid, input.preImage.customerid)
    ELSE Case(Null, Null)

\* variant: an explicit null in the Target does not clear the pre-image value
GetCaseAfterCreateOrUpdate_NullKeeps(preEntityImage, entity) ==
    Case( IF entity.primarycontactid # Absent /\ entity.primarycontactid # Null
          THEN entity.primarycontactid
          ELSE preEntityImage.Contact,
          IF entity.customerid # Absent /\ entity.customerid # Null
          THEN entity.customerid
          ELSE preEntityImage.Customer )

\* the pre-image overwritten by the attributes the Target contains
GetCaseAfterCreateOrUpdate(preEntityImage, entity) ==
    Case( IF entity.primarycontactid # Absent
          THEN entity.primarycontactid
          ELSE preEntityImage.Contact,
          IF entity.customerid # Absent
          THEN entity.customerid
          ELSE preEntityImage.Customer )

\* variant: the customer's entity type is not looked at
ValidateContactField_AnyCustomerType(cs, targetCase, fault) ==
    LET contactValue == targetCase.Contact
        customerValue == targetCase.Customer
    IN
    IF \/ contactValue = Null
       \/ customerValue = Null
    THEN Result("pass", "none", Null, 0, 0)
    ELSE IF fault \/ cs[contactValue.id] = Null
    THEN Result("error", "FaultException", Null, 0, 1)
    ELSE LET contactParentAccountValue == cs[contactValue.id].parentcustomerid
         IN
         IF \/ contactParentAccountValue = Null
            \/ contactParentAccountValue.id # customerValue.id
         THEN Result("violation", "InvalidPluginExecutionException",
                     Str(NotAssociatedMessage), 0, 1)
         ELSE Result("pass", "none", Null, 0, 1)

\* variant: a contact without parent account is let through
ValidateContactField_NullParentPasses(cs, targetCase, fault) ==
    LET contactValue == targetCase.Contact
        customerValue == targetCase.Customer
    IN
    IF \/ contactValue = Null
       \/ customerValue = Null
       \/ customerValue.logicalName # AccountLogicalName
    THEN Result("pass", "none", Null, 0, 0)
    ELSE IF fault \/ cs[contactValue.id] = Null
    THEN Result("error", "FaultException", Null, 0, 1)
    ELSE LET contactParentAccountValue == cs[contactValue.id].parentcustomerid
         IN
         IF /\ contactParentAccountValue # Null
            /\ contactParentAccountValue.id # customerValue.id
         THEN Result("violation", "InvalidPluginExecutionException",
                     Str(NotAssociatedMessage), 0, 1)
         ELSE Result("pass", "none", Null, 0, 1)

\* the rule proper
ValidateContactField(cs, targetCase, fault) ==
    LET contactValue == targetCase.Contact
        customerValue == targetCase.Customer
    IN
    IF \/ contactValue = Null
       \/ customerValue = Null
       \/ customerValue.logicalName # AccountLogicalName
    THEN Result("pass", "none", Null, 0, 0)
    ELSE IF fault \/ cs[contactValue.id] = Null
    THEN Result("error", "FaultException", Null, 0, 1)
    ELSE LET contactParentAccountValue == cs[contactValue.id].parentcustomerid
         IN
         IF \/ contactParentAccountValue = Null
            \/ contactParentAccountValue.id # customerValue.id
         THEN Result("violation", "InvalidPluginExecutionException",
                     Str(NotAssociatedMessage), 0, 1)
         ELSE Result("pass", "none", Null, 0, 1)

\* plugin entry point
IncidentPrimaryContactValidationPlugin(cs, input, fault) ==
    IF input.contextIsNull
    THEN Result("error", "ArgumentNullException", Null, 0, 0)
    ELSE IF input.target = Null
    THEN Result("error", "ArgumentException", Str("Target is null"), 0, 0)
    ELSE ValidateContactField(
             cs,
             GetCaseAfterCreateOrUpdate(GetPreEntityImage(input), input.target),
             fault)

\* the snapshot an execution validates, Case(Null, Null) before it has one
ValidatedCase(input) ==
    IF input.contextIsNull \/ input.target = Null
    THEN Case(Null, Null)
    ELSE GetCaseAfterCreateOrUpdate(GetPreEntityImage(input), input.target)

\* one Create or Update message reaching the validation plugin
ValidateCase ==
    /\ registered = "IncidentPrimaryContactValidation"
    /\ \E input \in CcInputs, fault \in BOOLEAN :
         LET r == IncidentPrimaryContactValidationPlugin(contacts, input, fault)
         IN
         /\ ccInput' = input
         /\ ccCase' = ValidatedCase(input)
         /\ ccFault' = (r.exception = "FaultException")
         /\ ccOutcome' = r.outcome
         /\ ccMessage' = r.message
         /\ ccFetches' = r.queries
    /\ UNCHANGED <<registered, contacts, sacVars, concVars, chVars,
                   formVars>>

----------------------------------------------------------------------------
(* caseFormAvailableCommunicationChannelsUpdate: channel availability *)

\* JavaScript values, tagged with the result of typeof
JsUndefined == [ type |-> "undefined" ]
JsNull == [ type |-> "object", isNull |-> TRUE ]
JsObject(fields) == [ type |-> "object", fields |-> fields ]
JsBoolean(b) == [ type |-> "boolean", value |-> b ]
JsNumber(n) == [ type |-> "number", value |-> n ]
JsString(chars) == [ type |-> "string", value |-> chars ]

\* strings are sequences of characters over a letter and two white spaces
Chars == { "a", " ", "\t" }
WhiteSpace == { " ", "\t", "\n", "\r" }

Strings == UNION { [ 1..n -> Chars ] : n \in 0..MaxLen }

\* what a channel value and a do-not-contact flag of a record may hold
ChannelValues ==
    { JsString(c) : c \in Strings }
    \cup { JsUndefined, JsNull, JsNumber(0), JsNumber(5) }

PreferenceValues ==
    { JsBoolean(TRUE), JsBoolean(FALSE), JsUndefined, JsNull, JsNumber(0) }

ContactRecords ==
    { JsObject(f) :
        f \in [ mobilephone   : ChannelValues,
                donotphone    : PreferenceValues,
                emailaddress1 : ChannelValues,
                donotemail    : PreferenceValues ] }

\* ToBoolean of JavaScript
Truthy(v) ==
    CASE v.type = "undefined" -> FALSE
      [] v.type = "object"    -> v # JsNull
      [] v.type = "boolean"   -> v.value
      [] v.type = "number"    -> v.value # 0
      [] v.type = "string"    -> Len(v.value) > 0
      [] OTHER                -> TRUE

\* String.prototype.trim
RECURSIVE TrimStart(_)
TrimStart(chars) ==
    IF Len(chars) > 0 /\ Head(chars) \in WhiteSpace
    THEN TrimStart(Tail(chars))
    ELSE chars

RECURSIVE TrimEnd(_)
TrimEnd(chars) ==
    IF Len(chars) > 0 /\ chars[Len(chars)] \in WhiteSpace
    THEN TrimEnd(SubSeq(chars, 1, Len(chars) - 1))
    ELSE chars

Trim(chars) == TrimEnd(TrimStart(chars))

\* variant: the value is not trimmed
_isContactMethodAvailable_NoTrim(channelValue, doNotContactPreference) ==
    IF \/ ~Truthy(channelValue)
       \/ channelValue.type # "string"
       \/ doNotContactPreference.type # "boolean"
    THEN FALSE
    ELSE ~doNotContactPreference.value /\ channelValue.value # <<>>

\* variant: the preference is read the wrong way round
_isContactMethodAvailable_FlagInverted(channelValue, doNotContactPreference) ==
    IF \/ ~Truthy(channelValue)
       \/ channelValue.type # "string"
       \/ doNotContactPreference.type # "boolean"
    THEN FALSE
    ELSE doNotContactPreference.value /\ Trim(channelValue.value) # <<>>

_isContactMethodAvailable(channelValue, doNotContactPreference) ==
    IF \/ ~Truthy(channelValue)
       \/ channelValue.type # "string"
       \/ doNotContactPreference.type # "boolean"
    THEN FALSE
    ELSE ~doNotContactPreference.value /\ Trim(channelValue.value) # <<>>


\* variant: without a contact record both channels count as available
_getContactMethodAvailability_UndefinedAvailable(contact) ==
    IF Truthy(contact)
    THEN [ mobilePhone  |->
               _isContactMethodAvailable(contact.fields.mobilephone,
                                         contact.fields.donotphone),
           emailAddress |->
               _isContactMethodAvailable(contact.fields.emailaddress1,
                                         contact.fields.donotemail) ]
    ELSE [ mobilePhone |-> TRUE, emailAddress |-> TRUE ]

_getContactMethodAvailability(contact) ==
    IF Truthy(contact)
    THEN [ mobilePhone  |->
               _isContactMethodAvailable(contact.fields.mobilephone,
                                         contact.fields.donotphone),
           emailAddress |->
               _isContactMethodAvailable(contact.fields.emailaddress1,
                                         contact.fields.donotemail) ]
    ELSE [ mobilePhone |-> FALSE, emailAddress |-> FALSE ]

\* the availability of the retrieved contact is computed
EvaluateChannels ==
    /\ chPc = "retrieved"
    /\ chAvailable' = _getContactMethodAvailability(chContact)
    /\ chPc' = "evaluated"
    /\ UNCHANGED <<chContact, registered, sacVars, concVars, ccVars,
                   formVars>>

----------------------------------------------------------------------------
(* Case form shared by the form scripts *)

\* a JavaScript array
JsArray(items) == [ type |-> "object", items |-> items ]

\* a lookup value element: { id, name, entityType }
LookupItem(id, name, entityType) ==
    JsObject([ id |-> id, name |-> name, entityType |-> entityType ])

\* _logicalNames.tables of the form scripts
CaseLogicalName == "incident"

AccountIds == { 1, 4 }
FullNames == [ i \in ContactIds |-> IF i = 2 THEN "Ann" ELSE "Bob" ]
ContactLookup(i) == JsArray(<< LookupItem(i, FullNames[i], ContactLogicalName) >>)

\* values the customer lookup field of the form can hold
CustomerValues ==
    { JsNull, JsArray(<< >>),
      JsArray(<< LookupItem(1, "Acme", AccountLogicalName) >>),
      JsArray(<< LookupItem(4, "Bolt", AccountLogicalName) >>),
      JsArray(<< LookupItem(2, FullNames[2], ContactLogicalName) >>),
      JsArray(<< LookupItem(5, "Lee", "lead") >>) }

\* the account record Xrm.WebApi.retrieveRecord resolves to, with the primary
\* contact expanded
AccountRecord(primaryContact) ==
    JsObject([ primarycontactid |-> primaryContact ])
ExpandedContact(i) == JsObject([ contactid |-> i, fullname |-> FullNames[i] ])
AccountRecords ==
    { AccountRecord(JsNull) } \cup
    { AccountRecord(ExpandedContact(i)) : i \in ContactIds }
AccountStores == [ AccountIds -> AccountRecords ]

\* first parameter a form event passes to its handler
ValidExecutionContext == JsObject([ getFormContext |-> "function" ])
ExecutionContexts ==
    { JsUndefined, JsObject([ getFormContext |-> "undefined" ]),
      ValidExecutionContext }

\* the case form as the maker laid it out, all fields visible and optional
Form(entityTypeName, hasCustomer, hasContact, hasEmail, hasQuickView) ==
    [ entityTypeName |-> entityTypeName,
      hasCustomer |-> hasCustomer,
      hasContact |-> hasContact,
      hasEmail |-> hasEmail,
      hasQuickView |-> hasQuickView,
      customer |-> JsNull,
      contact |-> JsNull,
      contactVisible |-> TRUE,
      contactRequired |-> "none",
      emailVisible |-> TRUE,
      emailRequired |-> "none",
      quickViewVisible |-> TRUE,
      hasMobileControl |-> TRUE,
      hasEmailControl |-> TRUE,
      mobileControlVisible |-> TRUE,
      emailControlVisible |-> TRUE ]
CaseForm == Form(CaseLogicalName, TRUE, TRUE, TRUE, TRUE)

\* one invocation of an event handler
IdleInvocation ==
    [ handler |-> "none", pc |-> "idle", fetchId |-> 0, fetches |-> 0,
      dialogs |-> 0, setters |-> 0, fired |-> 0, failure |-> "none",
      rejected |-> FALSE, read |-> JsUndefined, resolved |-> JsUndefined,
      executionContext |-> JsUndefined, retrieval |-> "none" ]

Handlers == 1..MaxHandlers

\* invocations are taken in order
NextInvocation(h) ==
    /\ inv[h].pc = "idle"
    /\ \A g \in Handlers : g < h => inv[g].pc # "idle"

\* variant: the error is left to the caller and the promise rejects
Caught_Rethrown(i, failure) ==
    [ i EXCEPT !.pc = "done", !.rejected = TRUE, !.failure = failure ]

\* the catch block of a handler: console.error and _notifyUserOfError
Caught(i, failure) ==
    [ i EXCEPT !.pc = "done", !.dialogs = @ + 1, !.failure = failure ]

----------------------------------------------------------------------------
(* caseFormCustomerContactConnector *)

\* typeof executionContext?.getFormContext === "function"
_guardExecutionContextIsValid(executionContext) ==
    /\ executionContext # JsUndefined
    /\ executionContext # JsNull
    /\ executionContext.fields.getFormContext = "function"

_guardFormIsAssociatedWithTheCaseEntity(formContext) ==
    formContext.entityTypeName = CaseLogicalName

_guardContactControlIsPresent(formContext) == formContext.hasContact

\* TRUE iff _tryReadValidFormContextOrThrow returns the form context
_tryReadValidFormContextOrThrow(formContext) ==
    /\ _guardFormIsAssociatedWithTheCaseEntity(formContext)
    /\ _guardContactControlIsPresent(formContext)

\* first element of the customer lookup value, null when there is none;
\* the caller checks that the customer attribute is on the form
_readCustomerField(formContext) ==
    IF /\ formContext.customer # JsNull
       /\ Len(formContext.customer.items) > 0
    THEN formContext.customer.items[1]
    ELSE JsNull

\* customerFieldValue?.entityType
EntityTypeOf(customerFieldValue) ==
    IF customerFieldValue \in { JsNull, JsUndefined }
    THEN "undefined"
    ELSE customerFieldValue.fields.entityType

_buildPrimaryContactLookupFromAccountRecord(accountRecord) ==
    LET contact == IF Truthy(accountRecord)
                   THEN accountRecord.fields.primarycontactid
                   ELSE accountRecord
    IN  IF Truthy(contact)
        THEN JsArray(<< LookupItem(contact.fields.contactid,
                                   contact.fields.fullname,
                                   ContactLogicalName) >>)
        ELSE JsNull

\* contactField.setValue(contactLookup); contactField.fireOnChange()
_setCaseContactField(formContext, contactLookup) ==
    [ formContext EXCEPT !.contact = contactLookup ]

\* variant: the contact field is required for any customer
_updateContactFieldControl_RequiredForAny(formContext) ==
    LET customerType == EntityTypeOf(_readCustomerField(formContext))
        isVisible == customerType # ContactLogicalName
        isRequired == customerType # "undefined"
    IN  [ formContext EXCEPT
            !.contactVisible = isVisible,
            !.contactRequired = IF isRequired THEN "required" ELSE "none" ]


\* variant: the contact field is shown for an account only
_updateContactFieldControl_VisibleForAccount(formContext) ==
    LET customerType == EntityTypeOf(_readCustomerField(formContext))
        isVisible == customerType = AccountLogicalName
        isRequired == customerType = AccountLogicalName
    IN  [ formContext EXCEPT
            !.contactVisible = isVisible,
            !.contactRequired = IF isRequired THEN "required" ELSE "none" ]

_updateContactFieldControl(formContext) ==
    LET customerType == EntityTypeOf(_readCustomerField(formContext))
        isVisible == customerType # ContactLogicalName
        isRequired == customerType = AccountLogicalName
    IN  [ formContext EXCEPT
            !.contactVisible = isVisible,
            !.contactRequired = IF isRequired THEN "required" ELSE "none" ]

\* variant: a customer that is not an account is passed through
_getContactLookupValueFromCustomerField_PassThrough(formContext) ==
    LET customerFieldValue == _readCustomerField(formContext)
    IN  IF EntityTypeOf(customerFieldValue) # AccountLogicalName
        THEN [ awaits |-> 0, value |-> formContext.customer ]
        ELSE [ awaits |-> customerFieldValue.fields.id, value |-> JsUndefined ]

\* variant: a contact field that holds a value is not resolved again
_getContactLookupValueFromCustomerField_KeepsExisting(formContext) ==
    LET customerFieldValue == _readCustomerField(formContext)
    IN  IF \/ EntityTypeOf(customerFieldValue) # AccountLogicalName
           \/ formContext.contact # JsNull
        THEN [ awaits |-> 0, value |-> JsNull ]
        ELSE [ awaits |-> customerFieldValue.fields.id, value |-> JsUndefined ]

\* the part of _getContactLookupValueFromCustomerField before its await:
\* the value it returns at once, or the id of the account it retrieves
_getContactLookupValueFromCustomerField(formContext) ==
    LET customerFieldValue == _readCustomerField(formContext)
    IN  IF EntityTypeOf(customerFieldValue) # AccountLogicalName
        THEN [ awaits |-> 0, value |-> JsNull ]
        ELSE [ awaits |-> customerFieldValue.fields.id, value |-> JsUndefined ]

\* the part of _getPrimaryContactLookupValueFromAccount after retrieveRecord
\* has resolved to account
_getPrimaryContactLookupValueFromAccount(account) ==
    _buildPrimaryContactLookupFromAccountRecord(account)

\* the customer field takes value, when the form has the field
CustomerChanged(formContext, value) ==
    IF formContext.hasCustomer
    THEN [ formContext EXCEPT !.customer = value ]
    ELSE formContext

\* a change of the customer field invokes populateContactOnCustomerChange,
\* which runs up to its await of the account, or to its end
PopulateContactStarts(h, executionContext, value) ==
    /\ registered = "caseFormCustomerContactConnector"
    /\ NextInvocation(h)
    /\ LET formContext == CustomerChanged(form, value)
           started == [ IdleInvocation EXCEPT
                          !.executionContext = executionContext,
                          !.handler = "populateContactOnCustomerChange" ]
       IN  IF ~_guardExecutionContextIsValid(executionContext)
           THEN /\ inv' = [ inv EXCEPT ![h] = Caught(started, "context") ]
                /\ form' = formContext
                /\ UNCHANGED resolvedFor
           ELSE IF ~_tryReadValidFormContextOrThrow(formContext)
           THEN /\ inv' = [ inv EXCEPT ![h] = Caught(started, "form") ]
                /\ form' = formContext
                /\ UNCHANGED resolvedFor
           ELSE IF ~formContext.hasCustomer
           THEN /\ inv' = [ inv EXCEPT ![h] = Caught(started, "customer") ]
                /\ form' = formContext
                /\ UNCHANGED resolvedFor
           ELSE LET contact ==
                        _getContactLookupValueFromCustomerField(formContext)
                    read == [ started EXCEPT
                                !.read = formContext.customer ]
                IN  IF contact.awaits # 0
                    THEN /\ inv' = [ inv EXCEPT ![h] =
                                       [ read EXCEPT
                                           !.pc = "awaiting",
                                           !.retrieval = "pending",
                                           !.fetchId = contact.awaits,
                                           !.fetches = 1 ] ]
                         /\ form' = formContext
                         /\ UNCHANGED resolvedFor
                    ELSE /\ inv' = [ inv EXCEPT ![h] =
                                       [ read EXCEPT
                                           !.pc = "done",
                                           !.resolved = contact.value,
                                           !.setters = 1,
                                           !.fired = 1 ] ]
                         /\ form' = _setCaseContactField(formContext,
                                                         contact.value)
                         /\ resolvedFor' =
                              [ resolvedFor EXCEPT ![read.read] =
                                  contact.value ]
    /\ UNCHANGED <<registered, accounts, contactRecords, sacVars, concVars,
                   ccVars, chVars>>

\* the retrieval of the account awaited by invocation h settles, and the
\* handler runs to its end
PopulateContactCompletes(h, retrieved) ==
    /\ registered = "caseFormCustomerContactConnector"
    /\ inv[h].pc = "awaiting"
    /\ inv[h].handler = "populateContactOnCustomerChange"
    /\ IF retrieved
       THEN LET contact == _getPrimaryContactLookupValueFromAccount(
                               accounts[inv[h].fetchId])
            IN  /\ inv' = [ inv EXCEPT ![h] =
                              [ @ EXCEPT !.pc = "done",
                                         !.retrieval = "resolved",
                                         !.resolved = contact,
                                         !.setters = 1,
                                         !.fired = 1 ] ]
                /\ form' = _setCaseContactField(form, contact)
                /\ resolvedFor' =
                     [ resolvedFor EXCEPT ![inv[h].read] =
                         contact ]
       ELSE /\ inv' = [ inv EXCEPT ![h] =
                          Caught([ @ EXCEPT !.retrieval = "rejected" ],
                                 "retrieve") ]
            /\ UNCHANGED <<form, resolvedFor>>
    /\ UNCHANGED <<registered, accounts, contactRecords, sacVars, concVars,
                   ccVars, chVars>>

\* a change of the customer field invokes updateContactField, which has no
\* await
UpdateContactFieldRuns(h, executionContext, value) ==
    /\ registered = "caseFormCustomerContactConnector"
    /\ NextInvocation(h)
    /\ LET formContext == CustomerChanged(form, value)
           started == [ IdleInvocation EXCEPT
                          !.executionContext = executionContext,
                          !.handler = "updateContactField" ]
       IN  IF ~_guardExecutionContextIsValid(executionContext)
           THEN /\ inv' = [ inv EXCEPT ![h] = Caught(started, "context") ]
                /\ form' = formContext
           ELSE IF ~_tryReadValidFormContextOrThrow(formContext)
           THEN /\ inv' = [ inv EXCEPT ![h] = Caught(started, "form") ]
                /\ form' = formContext
           ELSE IF ~formContext.hasCustomer
           THEN /\ inv' = [ inv EXCEPT ![h] = Caught(started, "customer") ]
                /\ form' = formContext
           ELSE /\ inv' = [ inv EXCEPT ![h] =
                              [ started EXCEPT
                                  !.pc = "done",
                                  !.read = formContext.customer,
                                  !.setters = 2 ] ]
                /\ form' = _updateContactFieldControl(formContext)
    /\ UNCHANGED <<registered, accounts, contactRecords, resolvedFor, sacVars,
                   concVars, ccVars, chVars>>

----------------------------------------------------------------------------
(* caseFormAvailableCommunicationChannelsUpdate: the form event handler *)

\* values the contact lookup field of the form can hold
ContactValues ==
    { JsNull, JsArray(<< >>) } \cup { ContactLookup(i) : i \in ContactIds }

\* a contact record with a reachable or a blank mobile phone and e-mail
ChannelsRecord(hasMobile, hasEmail) ==
    JsObject([ mobilephone   |-> IF hasMobile THEN JsString(<< "a" >>)
                                 ELSE JsNull,
               donotphone    |-> JsBoolean(FALSE),
               emailaddress1 |-> IF hasEmail THEN JsString(<< "a" >>)
                                 ELSE JsString(<< " " >>),
               donotemail    |-> JsBoolean(FALSE) ])
ChannelsRecords ==
    { ChannelsRecord(m, e) : m \in BOOLEAN, e \in BOOLEAN }
ContactRecordStores == [ ContactIds -> ChannelsRecords ]

_guardExecutionContextPassed(executionContext) ==
    /\ executionContext # JsUndefined
    /\ executionContext # JsNull
    /\ executionContext.fields.getFormContext = "function"

_guardFormIsAssociatedWithCaseEntity(formContext) ==
    formContext.entityTypeName = CaseLogicalName

\* _guardFieldIsPresentInForm for the contact and the e-mail field
_guardFieldIsPresentInForm(formContext) ==
    /\ formContext.hasContact
    /\ formContext.hasEmail

\* variant: the quick view form is checked with the fields
Channels_tryReadValidFormContextOrThrow_QuickViewToo(formContext) ==
    /\ _guardFormIsAssociatedWithCaseEntity(formContext)
    /\ _guardFieldIsPresentInForm(formContext)
    /\ formContext.hasQuickView

\* TRUE iff _tryReadValidFormContextOrThrow of this script returns the form
\* context
Channels_tryReadValidFormContextOrThrow(formContext) ==
    /\ _guardFormIsAssociatedWithCaseEntity(formContext)
    /\ _guardFieldIsPresentInForm(formContext)

\* TRUE iff _tryReadContactQuickViewForm returns the quick view control
_tryReadContactQuickViewForm(formContext) == formContext.hasQuickView

\* the part of _getContactRecordFromContactField before its await: the id of
\* the contact it retrieves, 0 when it returns undefined at once
_getContactRecordFromContactField(formContext) ==
    LET contactFieldValue == formContext.contact
    IN  IF Truthy(contactFieldValue) /\ Len(contactFieldValue.items) > 0
        THEN contactFieldValue.items[1].fields.id
        ELSE 0


\* variant: the quick view is shown only when both channels are available
_updateContactQuickViewVisiblity_BothChannels(formContext, availableContactMethods) ==
    [ formContext EXCEPT
        !.quickViewVisible = availableContactMethods.mobilePhone
                             /\ availableContactMethods.emailAddress,
        !.mobileControlVisible =
            IF formContext.hasMobileControl
            THEN availableContactMethods.mobilePhone ELSE @,
        !.emailControlVisible =
            IF formContext.hasEmailControl
            THEN availableContactMethods.emailAddress ELSE @ ]

\* the setters of _updateContactQuickViewVisiblity, once the quick view
\* control has been read
_updateContactQuickViewVisiblity(formContext, availableContactMethods) ==
    [ formContext EXCEPT
        !.quickViewVisible = availableContactMethods.mobilePhone
                             \/ availableContactMethods.emailAddress,
        !.mobileControlVisible =
            IF formContext.hasMobileControl
            THEN availableContactMethods.mobilePhone ELSE @,
        !.emailControlVisible =
            IF formContext.hasEmailControl
            THEN availableContactMethods.emailAddress ELSE @ ]

\* variant: the e-mail field follows the e-mail channel alone
_updateCaseEmailField_EmailChannelOnly(formContext, availableContactMethods) ==
    LET isNoContactCommunicationChannelsAvailable ==
            ~availableContactMethods.emailAddress
    IN  [ formContext EXCEPT
            !.emailVisible = isNoContactCommunicationChannelsAvailable,
            !.emailRequired = IF isNoContactCommunicationChannelsAvailable
                              THEN "required" ELSE "none" ]

_updateCaseEmailField(formContext, availableContactMethods) ==
    LET isNoContactCommunicationChannelsAvailable ==
            /\ ~availableContactMethods.mobilePhone
            /\ ~availableContactMethods.emailAddress
    IN  [ formContext EXCEPT
            !.emailVisible = isNoContactCommunicationChannelsAvailable,
            !.emailRequired = IF isNoContactCommunicationChannelsAvailable
                              THEN "required" ELSE "none" ]

\* number of setters _updateContactQuickViewVisiblity and
\* _updateCaseEmailField invoke on the form
ChannelSetters(formContext) ==
    3 + (IF formContext.hasMobileControl THEN 1 ELSE 0)
      + (IF formContext.hasEmailControl THEN 1 ELSE 0)

\* the contact field takes value, when the form has the field
ContactChanged(formContext, value) ==
    IF formContext.hasContact
    THEN [ formContext EXCEPT !.contact = value ]
    ELSE formContext

\* updateAvailableChannelsSection from the contact record on: the channels
\* are derived and the form is updated, or the quick view is found missing
ChannelsEvaluated(h, started, formContext, contact) ==
    LET availableContactMethods == _getContactMethodAvailability(contact)
    IN  IF ~_tryReadContactQuickViewForm(formContext)
        THEN /\ inv' = [ inv EXCEPT ![h] = Caught(started, "quickView") ]
             /\ form' = formContext
        ELSE /\ inv' = [ inv EXCEPT ![h] =
                           [ started EXCEPT
                               !.pc = "done",
                               !.resolved = availableContactMethods,
                               !.setters = ChannelSetters(formContext) ] ]
             /\ form' = _updateCaseEmailField(
                            _updateContactQuickViewVisiblity(
                                formContext, availableContactMethods),
                            availableContactMethods)

\* a change of the contact field invokes updateAvailableChannelsSection,
\* which runs up to its await of the contact record, or to its end
UpdateChannelsStarts(h, executionContext, value) ==
    /\ registered = "caseFormAvailableCommunicationChannelsUpdate"
    /\ NextInvocation(h)
    /\ LET formContext == ContactChanged(form, value)
           started == [ IdleInvocation EXCEPT
                          !.executionContext = executionContext,
                          !.handler = "updateAvailableChannelsSection",
                          !.read = formContext.contact ]
       IN  IF ~_guardExecutionContextPassed(executionContext)
           THEN /\ inv' = [ inv EXCEPT ![h] = Caught(started, "context") ]
                /\ form' = formContext
           ELSE IF ~Channels_tryReadValidFormContextOrThrow(formContext)
           THEN /\ inv' = [ inv EXCEPT ![h] = Caught(started, "form") ]
                /\ form' = formContext
           ELSE LET contactId ==
                        _getContactRecordFromContactField(formContext)
                IN  IF contactId # 0
                    THEN /\ inv' = [ inv EXCEPT ![h] =
                                       [ started EXCEPT
                                           !.pc = "awaiting",
                                           !.retrieval = "pending",
                                           !.fetchId = contactId,
                                           !.fetches = 1 ] ]
                         /\ form' = formContext
                    ELSE ChannelsEvaluated(h, started, formContext,
                                           JsUndefined)
    /\ UNCHANGED <<registered, accounts, contactRecords, resolvedFor,
                   sacVars, concVars, ccVars, chVars>>

\* the retrieval of the contact awaited by invocation h settles, and the
\* handler runs to its end
UpdateChannelsCompletes(h, retrieved) ==
    /\ registered = "caseFormAvailableCommunicationChannelsUpdate"
    /\ inv[h].pc = "awaiting"
    /\ inv[h].handler = "updateAvailableChannelsSection"
    /\ IF retrieved
       THEN ChannelsEvaluated(h, [ inv[h] EXCEPT !.retrieval = "resolved" ],
                              form, contactRecords[inv[h].fetchId])
       ELSE /\ inv' = [ inv EXCEPT ![h] =
                          Caught([ @ EXCEPT !.retrieval = "rejected" ],
                                 "retrieve") ]
            /\ UNCHANGED form
    /\ UNCHANGED <<registered, accounts, contactRecords, resolvedFor,
                   sacVars, concVars, ccVars, chVars>>

----------------------------------------------------------------------------
(* caseFormAutomaticContactPopulation *)

\* the "use strict" variant of the script and its variant with validators
StrictVariant == "caseFormAutomaticContactPopulation (use strict)"
ValidatedVariant == "caseFormAutomaticContactPopulation"

\* _buildPrimaryContactLookupFromAccountRecord of the "use strict" variant:
\* no return statement follows the if
Strict_buildPrimaryContactLookupFromAccountRecord(accountRecord) ==
    LET contact == IF Truthy(accountRecord)
                   THEN accountRecord.fields.primarycontactid
                   ELSE accountRecord
    IN  IF Truthy(contact)
        THEN JsArray(<< LookupItem(contact.fields.contactid,
                                   contact.fields.fullname,
                                   ContactLogicalName) >>)
        ELSE JsUndefined

\* _buildPrimaryContactLookupFromAccountRecord of the variant with validators
Validated_buildPrimaryContactLookupFromAccountRecord(accountRecord) ==
    LET contact == IF Truthy(accountRecord)
                   THEN accountRecord.fields.primarycontactid
                   ELSE accountRecord
    IN  IF ~Truthy(contact)
        THEN JsNull
        ELSE JsArray(<< LookupItem(contact.fields.contactid,
                                   contact.fields.fullname,
                                   ContactLogicalName) >>)

\* variant: any customer that is not an account resolves to null
Auto_getContactLookupValueFromCustomerField_Null(formContext) ==
    LET customerFieldValue == formContext.customer
    IN  IF /\ Truthy(customerFieldValue)
           /\ Len(customerFieldValue.items) > 0
           /\ customerFieldValue.items[1].fields.entityType
                = AccountLogicalName
        THEN [ awaits |-> customerFieldValue.items[1].fields.id,
               value |-> JsUndefined ]
        ELSE [ awaits |-> 0, value |-> JsNull ]

\* the part of _getContactLookupValueFromCustomerField of both variants
\* before its await: the value it returns at once, or the id of the account
\* it retrieves
Auto_getContactLookupValueFromCustomerField(formContext) ==
    LET customerFieldValue == formContext.customer
    IN  IF /\ Truthy(customerFieldValue)
           /\ Len(customerFieldValue.items) > 0
           /\ customerFieldValue.items[1].fields.entityType
                = AccountLogicalName
        THEN [ awaits |-> customerFieldValue.items[1].fields.id,
               value |-> JsUndefined ]
        ELSE [ awaits |-> 0, value |-> customerFieldValue ]

\* a change of the customer field invokes populateContactOnCustomerChange of
\* the "use strict" variant: the argument of _tryReadValidFormContextOrThrow
\* is the constant the call initialises, so evaluating it throws a
\* ReferenceError, which the catch block reports
StrictPopulateContactRuns(h, executionContext, value) ==
    /\ registered = StrictVariant
    /\ NextInvocation(h)
    /\ LET started == [ IdleInvocation EXCEPT
                          !.executionContext = executionContext,
                          !.handler = "populateContactOnCustomerChange",
                          !.read = CustomerChanged(form, value).customer ]
       IN  IF ~_guardExecutionContextPassed(executionContext)
           THEN inv' = [ inv EXCEPT ![h] = Caught(started, "context") ]
           ELSE inv' = [ inv EXCEPT ![h] = Caught(started, "reference") ]
    /\ form' = CustomerChanged(form, value)
    /\ UNCHANGED <<registered, accounts, contactRecords, resolvedFor,
                   sacVars, concVars, ccVars, chVars>>

----------------------------------------------------------------------------
(* Contact resolution of the three scripts, taken on its own *)

ResolvingScripts ==
    { "caseFormCustomerContactConnector", StrictVariant, ValidatedVariant }

\* _getContactLookupValueFromCustomerField of script, from the customer field
\* to the value its promise settles with; retrieved is FALSE when
\* retrieveRecord rejects
Resolve(script, formContext, accountStore, retrieved) ==
    LET contact ==
            IF script = "caseFormCustomerContactConnector"
            THEN _getContactLookupValueFromCustomerField(formContext)
            ELSE Auto_getContactLookupValueFromCustomerField(formContext)
        account == accountStore[contact.awaits]
    IN  IF contact.awaits = 0
        THEN [ fetches |-> 0, rejected |-> FALSE, value |-> contact.value ]
        ELSE IF ~retrieved
        THEN [ fetches |-> 1, rejected |-> TRUE, value |-> JsUndefined ]
        ELSE [ fetches |-> 1, rejected |-> FALSE,
               value |->
                 CASE script = "caseFormCustomerContactConnector" ->
                        _getPrimaryContactLookupValueFromAccount(account)
                   [] script = StrictVariant ->
                        Strict_buildPrimaryContactLookupFromAccountRecord(
                            account)
                   [] OTHER ->
                        Validated_buildPrimaryContactLookupFromAccountRecord(
                            account) ]

\* the customer field of the form is resolved once
ResolveRuns(retrieved) ==
    /\ inv[1].pc = "idle"
    /\ LET result == Resolve(registered, form, accounts, retrieved)
       IN  inv' = [ inv EXCEPT ![1] =
                      [ IdleInvocation EXCEPT
                          !.handler = "_getContactLookupValueFromCustomerField",
                          !.pc = "done",
                          !.read = form.customer,
                          !.fetches = result.fetches,
                          !.rejected = result.rejected,
                          !.resolved = result.value ] ]
    /\ UNCHANGED <<registered, form, accounts, contactRecords, resolvedFor,
                   sacVars, concVars, ccVars, chVars>>

----------------------------------------------------------------------------
(* Specifications *)

SacIdle ==
    /\ sacInput = [ contextIsNull |-> TRUE, target |-> Null ]
    /\ sacFault = FALSE
    /\ sacOutcome = "none"
    /\ sacMessage = Null
    /\ sacMatched = 0
    /\ sacQueries = 0
    /\ sacBefore = store
    /\ sacException = "none"
    /\ sacResult = NoCollection

ConcIdle ==
    /\ pc = [ p \in 1..NumCreators |-> "idle" ]
    /\ pInput = [ p \in 1..NumCreators |->
                    [ contextIsNull |-> TRUE, target |-> Null ] ]

CcIdle ==
    /\ ccInput = [ contextIsNull |-> TRUE, preImage |-> Null, target |-> Null ]
    /\ ccCase = Case(Null, Null)
    /\ ccFault = FALSE
    /\ ccOutcome = "none"
    /\ ccMessage = Null
    /\ ccFetches = 0

ChIdle ==
    /\ chContact = JsUndefined
    /\ chAvailable = [ mobilePhone |-> FALSE, emailAddress |-> FALSE ]
    /\ chPc = "evaluated"

NoAccounts == [ i \in AccountIds |-> AccountRecord(JsNull) ]
NoContactRecords == [ i \in ContactIds |-> ChannelsRecord(FALSE, FALSE) ]

FormIdle ==
    /\ form = CaseForm
    /\ accounts = NoAccounts
    /\ contactRecords = NoContactRecords
    /\ inv = [ h \in Handlers |-> IdleInvocation ]
    /\ resolvedFor = [ v \in CustomerValues |-> JsUndefined ]

EmptyStore == [ i \in CaseIds |-> Null ]
NoContacts == [ i \in ContactIds |-> Null ]

\* an environment with one of the two plug-in steps registered, and any
\* content of the table that plug-in reads
Init ==
    /\ \/ /\ registered = "SingleActiveCaseEnforcement"
          /\ store \in Stores
          /\ contacts = NoContacts
       \/ /\ registered = "IncidentPrimaryContactValidation"
          /\ store = EmptyStore
          /\ contacts \in ContactStores
    /\ SacIdle
    /\ ConcIdle
    /\ CcIdle
    /\ ChIdle
    /\ FormIdle

Next == CreateCase \/ ValidateCase

Spec == Init /\ [][Next]_vars

\* concurrent creations start from a store that satisfies the rule
ConcInit ==
    /\ registered = "SingleActiveCaseEnforcement"
    /\ store \in { s \in Stores : AtMostOneActiveCase(s) }
    /\ contacts = NoContacts
    /\ SacIdle
    /\ ConcIdle
    /\ CcIdle
    /\ ChIdle
    /\ FormIdle

ConcNext == \E p \in Creators : PluginRuns(p) \/ PlatformCommits(p)

SpecConc == ConcInit /\ [][ConcNext]_vars

\* channel availability: any contact record the retrieval may hand over, or
\* no record when the contact field is empty
ChannelsInit ==
    /\ registered = "none"
    /\ store = EmptyStore
    /\ contacts = NoContacts
    /\ SacIdle
    /\ ConcIdle
    /\ CcIdle
    /\ chContact \in ContactRecords \cup { JsUndefined, JsNull }
    /\ chAvailable = [ mobilePhone |-> FALSE, emailAddress |-> FALSE ]
    /\ chPc = "retrieved"
    /\ FormIdle

ChannelsNext == EvaluateChannels

SpecChannels == ChannelsInit /\ [][ChannelsNext]_vars

\* layouts of the form the connector script may be registered on: the case
\* form, a form of another entity, and case forms missing a field
ConnectorLayouts ==
    { CaseForm,
      Form(AccountLogicalName, TRUE, TRUE, TRUE, TRUE),
      Form(CaseLogicalName, TRUE, FALSE, TRUE, TRUE),
      Form(CaseLogicalName, FALSE, TRUE, TRUE, TRUE) }

\* layouts of the form the channels script may be registered on: the case
\* form, a form of another entity, case forms missing an element, and case
\* forms whose quick view lacks the mobile phone or the e-mail control
ChannelsLayouts ==
    { CaseForm,
      Form(AccountLogicalName, TRUE, TRUE, TRUE, TRUE),
      Form(CaseLogicalName, TRUE, FALSE, TRUE, TRUE),
      Form(CaseLogicalName, TRUE, TRUE, FALSE, TRUE),
      Form(CaseLogicalName, TRUE, TRUE, TRUE, FALSE),
      [ CaseForm EXCEPT !.hasMobileControl = FALSE ],
      [ CaseForm EXCEPT !.hasEmailControl = FALSE ] }

\* a form with one of the form scripts registered on its events
FormInit ==
    /\ \/ /\ registered = "caseFormCustomerContactConnector"
          /\ form \in ConnectorLayouts
          /\ accounts \in AccountStores
          /\ contactRecords = NoContactRecords
       \/ /\ registered = "caseFormAvailableCommunicationChannelsUpdate"
          /\ form \in ChannelsLayouts
          /\ accounts = NoAccounts
          /\ contactRecords \in ContactRecordStores
       \/ /\ registered = StrictVariant
          /\ form \in ConnectorLayouts
          /\ accounts \in AccountStores
          /\ contactRecords = NoContactRecords
    /\ inv = [ h \in Handlers |-> IdleInvocation ]
    /\ resolvedFor = [ v \in CustomerValues |-> JsUndefined ]
    /\ store = EmptyStore
    /\ contacts = NoContacts
    /\ SacIdle
    /\ ConcIdle
    /\ CcIdle
    /\ ChIdle

FormNext ==
    \/ \E h \in Handlers, executionContext \in ExecutionContexts,
          value \in CustomerValues :
          \/ PopulateContactStarts(h, executionContext, value)
          \/ UpdateContactFieldRuns(h, executionContext, value)
    \/ \E h \in Handlers, retrieved \in BOOLEAN :
          PopulateContactCompletes(h, retrieved)
    \/ \E h \in Handlers, executionContext \in ExecutionContexts,
          value \in ContactValues :
          UpdateChannelsStarts(h, executionContext, value)
    \/ \E h \in Handlers, retrieved \in BOOLEAN :
          UpdateChannelsCompletes(h, retrieved)
    \/ \E h \in Handlers, executionContext \in ExecutionContexts,
          value \in CustomerValues :
          StrictPopulateContactRuns(h, executionContext, value)

SpecForm == FormInit /\ [][FormNext]_vars

\* contact resolution: any script, any customer value, any account store
ResolveInit ==
    /\ registered \in ResolvingScripts
    /\ form \in { [ CaseForm EXCEPT !.customer = v ] : v \in CustomerValues }
    /\ accounts \in AccountStores
    /\ contactRecords = NoContactRecords
    /\ inv = [ h \in Handlers |-> IdleInvocation ]
    /\ resolvedFor = [ v \in CustomerValues |-> JsUndefined ]
    /\ store = EmptyStore
    /\ contacts = NoContacts
    /\ SacIdle
    /\ ConcIdle
    /\ CcIdle
    /\ ChIdle

ResolveNext == \E retrieved \in BOOLEAN : ResolveRuns(retrieved)

SpecResolve == ResolveInit /\ [][ResolveNext]_vars

\* the two places that branch on the entity type of the customer: the
\* contact validation plug-in, or the connector script on a form
CustomerTypeInit ==
    /\ \/ /\ registered = "IncidentPrimaryContactValidation"
          /\ contacts \in ContactStores
          /\ form = CaseForm
          /\ accounts = NoAccounts
       \/ /\ registered = "caseFormCustomerContactConnector"
          /\ contacts = NoContacts
          /\ form \in ConnectorLayouts
          /\ accounts \in AccountStores
    /\ contactRecords = NoContactRecords
    /\ inv = [ h \in Handlers |-> IdleInvocation ]
    /\ resolvedFor = [ v \in CustomerValues |-> JsUndefined ]
    /\ store = EmptyStore
    /\ SacIdle
    /\ ConcIdle
    /\ CcIdle
    /\ ChIdle

CustomerTypeNext ==
    \/ ValidateCase
    \/ \E h \in Handlers, executionContext \in ExecutionContexts,
          value \in CustomerValues :
          \/ PopulateContactStarts(h, executionContext, value)
          \/ UpdateContactFieldRuns(h, executionContext, value)
    \/ \E h \in Handlers, retrieved \in BOOLEAN :
          PopulateContactCompletes(h, retrieved)

SpecCustomerType == CustomerTypeInit /\ [][CustomerTypeNext]_vars

\* creations whose query the organization service may answer with null
NullCollectionInit ==
    /\ registered = "SingleActiveCaseEnforcement"
    /\ store \in Stores
    /\ contacts = NoContacts
    /\ SacIdle
    /\ ConcIdle
    /\ CcIdle
    /\ ChIdle
    /\ FormIdle

NullCollectionNext == CreateCase \/ CreateCaseNullCollection

SpecNullCollection == NullCollectionInit /\ [][NullCollectionNext]_vars

\* the plug-in's step registered on the Update message
UpdateStepInit ==
    /\ registered = "SingleActiveCaseEnforcement (Update)"
    /\ store \in Stores
    /\ contacts = NoContacts
    /\ SacIdle
    /\ ConcIdle
    /\ CcIdle
    /\ ChIdle
    /\ FormIdle

UpdateStepNext == UpdateCaseChecked

SpecUpdateStep == UpdateStepInit /\ [][UpdateStepNext]_vars

\* creations gated by the plug-in, updates not gated, from a store that
\* satisfies the rule
UpdatesInit ==
    /\ registered = "SingleActiveCaseEnforcement"
    /\ store \in { s \in Stores : AtMostOneActiveCase(s) }
    /\ contacts = NoContacts
    /\ SacIdle
    /\ ConcIdle
    /\ CcIdle
    /\ ChIdle
    /\ FormIdle

UpdatesNext == CreateCase \/ UpdateCase

SpecUpdates == UpdatesInit /\ [][UpdatesNext]_vars

----------------------------------------------------------------------------
(* Claims on the single-active-case rule *)

\* C1: for a target with a customer and a query that succeeds, the plugin
\* rejects exactly when the store it ran against holds an active case of the
\* target's customer id, and passes otherwise, whichever match the query
\* returned.
C1_RuleDecision ==
    ( /\ sacOutcome # "none"
      /\ ~sacInput.contextIsNull
      /\ sacInput.target # Null
      /\ sacInput.target.logicalName = "incident"
      /\ sacInput.target.customerid # Null
      /\ ~sacFault )
    => /\ sacOutcome \in {"pass", "violation"}
       /\ (sacOutcome = "violation") <=>
            \E i \in CaseIds :
                /\ sacBefore[i] # Null
                /\ sacBefore[i].statecode = 0
                /\ sacBefore[i].customerid.id = sacInput.target.customerid.id

\* two active cases of the target's customer, the query returned the second
C1_Witness ==
    /\ sacOutcome = "violation"
    /\ sacMatched = 2
    /\ sacBefore[1] # Null
    /\ sacBefore[1].statecode = 0
    /\ sacBefore[1].customerid.id = sacInput.target.customerid.id

\* C2: a creation that is checked and committed in one step keeps the store
\* within "every customer has at most one active case".
C2_CreationsPreserveSingleActiveCase ==
    [][AtMostOneActiveCase(store) => AtMostOneActiveCase(store')]_vars

\* a creation was let through and committed next to another customer's
\* active case
C2_Witness ==
    /\ sacOutcome = "pass"
    /\ store # sacBefore
    /\ AtMostOneActiveCase(sacBefore)
    /\ Cardinality({ i \in StoredIds(store) : store[i].statecode = 0 }) = 2

\* C3: at most one active case per customer, in every state reached by
\* concurrent creations.
C3_SingleActiveCaseUnderConcurrency == AtMostOneActiveCase(store)

\* C4: on rejection the message is the fixed prefix followed by the title of
\* the case the query returned, which is an active case of the target's
\* customer.
C4_ViolationMessage ==
    sacOutcome = "violation" =>
        /\ sacMatched \in StoredIds(sacBefore)
        /\ sacBefore[sacMatched].statecode = 0
        /\ sacBefore[sacMatched].customerid.id = sacInput.target.customerid.id
        /\ sacMessage =
             [ text |-> "An active case already exists for this customer: "
                        \o ( IF sacBefore[sacMatched].title = Null
                             THEN ""
                             ELSE sacBefore[sacMatched].title.text ) ]

\* the scenario of the specification: the existing case is "Billing dispute"
C4_Witness ==
    /\ sacOutcome = "violation"
    /\ sacInput.target.title = [ text |-> "Router fault" ]
    /\ sacMessage =
         [ text |-> "An active case already exists for this customer: Billing dispute" ]

----------------------------------------------------------------------------
(* Claims on the contact-customer consistency rule *)

\* C5: when the validated snapshot has no contact, or no customer, or a
\* customer that is not an account, the plugin passes and retrieves nothing,
\* whatever the contact and the contact table are.
C5_RuleNotApplicable ==
    ( /\ ccOutcome # "none"
      /\ ~ccInput.contextIsNull
      /\ ccInput.target # Null
      /\ \/ ccCase.Contact = Null
         \/ ccCase.Customer = Null
         \/ ccCase.Customer.logicalName # "account" )
    => /\ ccOutcome = "pass"
       /\ ccFetches = 0
       /\ ccMessage = Null

\* a contact customer with a contact whose parent is some other account
C5_Witness ==
    /\ ccOutcome = "pass"
    /\ ccFetches = 0
    /\ ccCase.Contact = [ id |-> 3, logicalName |-> "contact" ]
    /\ ccCase.Customer = [ id |-> 2, logicalName |-> "contact" ]
    /\ contacts[3] # Null
    /\ contacts[3].parentcustomerid = [ id |-> 4, logicalName |-> "account" ]

\* C6: with a contact and an account customer, and a Retrieve that succeeds,
\* the plugin passes exactly when the contact's parent account reference is
\* non-null and carries the customer's id; otherwise it throws the violation
\* "The contact is not associated with the customer."
C6_RuleApplicable ==
    ( /\ ccOutcome # "none"
      /\ ~ccInput.contextIsNull
      /\ ccInput.target # Null
      /\ ccCase.Contact # Null
      /\ ccCase.Customer # Null
      /\ ccCase.Customer.logicalName = "account"
      /\ ~ccFault )
    => /\ ccFetches = 1
       /\ (ccOutcome = "pass") <=>
            /\ contacts[ccCase.Contact.id].parentcustomerid # Null
            /\ contacts[ccCase.Contact.id].parentcustomerid.id
                 = ccCase.Customer.id
       /\ ccOutcome # "pass" =>
            /\ ccOutcome = "violation"
            /\ ccMessage =
                 [ text |-> "The contact is not associated with the customer." ]

\* the scenario of the specification: the contact's parent is another account
C6_Witness ==
    /\ ccOutcome = "violation"
    /\ ccCase.Customer = [ id |-> 1, logicalName |-> "account" ]
    /\ ccCase.Contact # Null
    /\ contacts[ccCase.Contact.id] # Null
    /\ contacts[ccCase.Contact.id].parentcustomerid
         = [ id |-> 4, logicalName |-> "account" ]

\* C7: a record-store call that fails ends the execution in an error that is
\* neither pass nor the business-rule violation, and nothing is committed.
C7_StoreFailureIsAnError ==
    /\ sacFault =>
         /\ sacOutcome = "error"
         /\ sacMessage = Null
         /\ store = sacBefore
    /\ ccFault =>
         /\ ccOutcome = "error"
         /\ ccMessage = Null

\* the query faulted for a customer without active case: a pass was at hand
C7_Witness ==
    /\ sacFault
    /\ sacOutcome = "error"
    /\ sacQueries = 1
    /\ \A i \in StoredIds(store) :
         store[i].customerid.id # sacInput.target.customerid.id

\* C8: the validated snapshot takes each of contact and customer from the
\* Target when the Target contains the attribute, an explicit null included,
\* and from the pre-image otherwise; without pre-image the base is null.
C8_SnapshotIsOverlay ==
    ( /\ ccOutcome # "none"
      /\ ~ccInput.contextIsNull
      /\ ccInput.target # Null )
    => /\ ccCase.Contact =
            IF ccInput.target.primarycontactid # [absent |-> TRUE]
            THEN ccInput.target.primarycontactid
            ELSE IF ccInput.preImage = Null
                 THEN Null
                 ELSE ccInput.preImage.primarycontactid
       /\ ccCase.Customer =
            IF ccInput.target.customerid # [absent |-> TRUE]
            THEN ccInput.target.customerid
            ELSE IF ccInput.preImage = Null
                 THEN Null
                 ELSE ccInput.preImage.customerid

\* the Target clears the contact with an explicit null and leaves the
\* customer to the pre-image
C8_Witness ==
    /\ ccOutcome = "pass"
    /\ ccInput.preImage # Null
    /\ ccInput.preImage.primarycontactid # Null
    /\ ccInput.target.primarycontactid = Null
    /\ ccInput.target.customerid = [absent |-> TRUE]
    /\ ccCase.Contact = Null
    /\ ccCase.Customer = [ id |-> 1, logicalName |-> "account" ]

----------------------------------------------------------------------------
(* Claims on channel availability *)

\* C9, as stated: a channel is available exactly when its value is a string
\* that is non-empty after trimming and its do-not-contact flag is false or
\* absent.
C9_AvailableIffValueAndFlagFalseOrAbsent ==
    ( chPc = "evaluated" /\ chContact \in ContactRecords ) =>
        /\ chAvailable.mobilePhone <=>
             /\ chContact.fields.mobilephone.type = "string"
             /\ \E i \in 1..Len(chContact.fields.mobilephone.value) :
                  chContact.fields.mobilephone.value[i] \notin WhiteSpace
             /\ chContact.fields.donotphone
                  \in { [ type |-> "boolean", value |-> FALSE ],
                        [ type |-> "undefined" ],
                        [ type |-> "object", isNull |-> TRUE ] }
        /\ chAvailable.emailAddress <=>
             /\ chContact.fields.emailaddress1.type = "string"
             /\ \E i \in 1..Len(chContact.fields.emailaddress1.value) :
                  chContact.fields.emailaddress1.value[i] \notin WhiteSpace
             /\ chContact.fields.donotemail
                  \in { [ type |-> "boolean", value |-> FALSE ],
                        [ type |-> "undefined" ],
                        [ type |-> "object", isNull |-> TRUE ] }

\* C9, amended: a channel is available exactly when its value is a string
\* that is non-empty after trimming and its do-not-contact flag is the
\* boolean false; an absent or non-boolean flag makes it unavailable.
C9_AvailableIffValueAndFlagFalse ==
    ( chPc = "evaluated" /\ chContact \in ContactRecords ) =>
        /\ chAvailable.mobilePhone <=>
             /\ chContact.fields.mobilephone.type = "string"
             /\ \E i \in 1..Len(chContact.fields.mobilephone.value) :
                  chContact.fields.mobilephone.value[i] \notin WhiteSpace
             /\ chContact.fields.donotphone
                  = [ type |-> "boolean", value |-> FALSE ]
        /\ chAvailable.emailAddress <=>
             /\ chContact.fields.emailaddress1.type = "string"
             /\ \E i \in 1..Len(chContact.fields.emailaddress1.value) :
                  chContact.fields.emailaddress1.value[i] \notin WhiteSpace
             /\ chContact.fields.donotemail
                  = [ type |-> "boolean", value |-> FALSE ]

\* a padded phone number that may be used, an e-mail address whose flag is
\* absent
C9_Witness ==
    /\ chPc = "evaluated"
    /\ chContact \in ContactRecords
    /\ chContact.fields.mobilephone = [ type |-> "string", value |-> <<" ", "a">> ]
    /\ chContact.fields.donotphone = [ type |-> "boolean", value |-> FALSE ]
    /\ chContact.fields.emailaddress1 = [ type |-> "string", value |-> <<"a">> ]
    /\ chContact.fields.donotemail = [ type |-> "undefined" ]
    /\ chAvailable = [ mobilePhone |-> TRUE, emailAddress |-> FALSE ]

\* C10: a channel whose value is null, empty or white space only is
\* unavailable even when its flag is false, and a channel whose flag is true
\* is unavailable whatever its value.
C10_BlankOrRefusedIsUnavailable ==
    ( chPc = "evaluated" /\ chContact \in ContactRecords ) =>
        /\ ( \/ chContact.fields.mobilephone = [ type |-> "object", isNull |-> TRUE ]
             \/ /\ chContact.fields.mobilephone.type = "string"
                /\ \A i \in 1..Len(chContact.fields.mobilephone.value) :
                     chContact.fields.mobilephone.value[i] \in WhiteSpace
             \/ chContact.fields.donotphone = [ type |-> "boolean", value |-> TRUE ] )
           => ~chAvailable.mobilePhone
        /\ ( \/ chContact.fields.emailaddress1 = [ type |-> "object", isNull |-> TRUE ]
             \/ /\ chContact.fields.emailaddress1.type = "string"
                /\ \A i \in 1..Len(chContact.fields.emailaddress1.value) :
                     chContact.fields.emailaddress1.value[i] \in WhiteSpace
             \/ chContact.fields.donotemail = [ type |-> "boolean", value |-> TRUE ] )
           => ~chAvailable.emailAddress

\* a white-space phone number with flag false, an e-mail address with flag
\* true
C10_Witness ==
    /\ chPc = "evaluated"
    /\ chContact \in ContactRecords
    /\ chContact.fields.mobilephone = [ type |-> "string", value |-> <<" ", "\t">> ]
    /\ chContact.fields.donotphone = [ type |-> "boolean", value |-> FALSE ]
    /\ chContact.fields.emailaddress1 = [ type |-> "string", value |-> <<"a">> ]
    /\ chContact.fields.donotemail = [ type |-> "boolean", value |-> TRUE ]
    /\ chAvailable = [ mobilePhone |-> FALSE, emailAddress |-> FALSE ]

----------------------------------------------------------------------------
(* Claims on the form scripts *)

\* C11: whenever an evaluation of updateAvailableChannelsSection ends without
\* an error, the e-mail field of the case is visible and required if neither
\* the mobile phone nor the e-mail channel of the contact it used is
\* available, and hidden and optional otherwise.
C11_EmailFieldFollowsChannels ==
    [][ \A h \in Handlers :
          ( /\ inv[h].pc # "done"
            /\ inv'[h].pc = "done"
            /\ inv'[h].handler = "updateAvailableChannelsSection"
            /\ inv'[h].dialogs = 0 )
          => LET contact == IF inv'[h].fetches = 0
                            THEN [ type |-> "undefined" ]
                            ELSE contactRecords[inv'[h].fetchId]
                 channels == _getContactMethodAvailability(contact)
             IN  IF ~channels.mobilePhone /\ ~channels.emailAddress
                 THEN form'.emailVisible /\ form'.emailRequired = "required"
                 ELSE ~form'.emailVisible /\ form'.emailRequired = "none"
      ]_vars

\* an evaluation for a contact with a mobile phone has hidden the e-mail field
C11_Witness ==
    \E h \in Handlers :
        /\ inv[h].pc = "done"
        /\ inv[h].handler = "updateAvailableChannelsSection"
        /\ inv[h].dialogs = 0
        /\ inv[h].fetches = 1
        /\ inv[h].resolved = [ mobilePhone |-> TRUE, emailAddress |-> FALSE ]
        /\ ~form.emailVisible
        /\ form.emailRequired = "none"

\* C12: whenever an evaluation of updateContactField ends without an error,
\* the contact field is hidden exactly when the customer is a contact and
\* required exactly when the customer is an account; with an empty customer
\* it is visible and optional, and it is never both hidden and required.
C12_ContactFieldFollowsCustomerType ==
    [][ \A h \in Handlers :
          ( /\ inv[h].pc # "done"
            /\ inv'[h].pc = "done"
            /\ inv'[h].handler = "updateContactField"
            /\ inv'[h].dialogs = 0 )
          => LET customerType ==
                     IF form'.customer.type = "object"
                          /\ "items" \in DOMAIN form'.customer
                          /\ form'.customer.items # << >>
                     THEN form'.customer.items[1].fields.entityType
                     ELSE "empty"
             IN  /\ ~form'.contactVisible <=> customerType = "contact"
                 /\ form'.contactRequired = "required"
                      <=> customerType = "account"
                 /\ form'.contactRequired \in { "required", "none" }
                 /\ customerType = "empty" =>
                      form'.contactVisible /\ form'.contactRequired = "none"
                 /\ ~( ~form'.contactVisible
                       /\ form'.contactRequired = "required" )
      ]_vars

\* an evaluation for a customer that is a contact has hidden the contact field
C12_Witness ==
    \E h \in Handlers :
        /\ inv[h].pc = "done"
        /\ inv[h].handler = "updateContactField"
        /\ inv[h].dialogs = 0
        /\ form.customer # [ type |-> "object", isNull |-> TRUE ]
        /\ form.customer.items # << >>
        /\ form.customer.items[1].fields.entityType = "contact"
        /\ ~form.contactVisible
        /\ form.contactRequired = "none"

\* C13: resolving a customer that is an account issues one retrieval of the
\* account; when the retrieval succeeds the result is the one-element lookup
\* { id, fullname, "contact" } of the account's primary contact, and null when
\* the account has no primary contact.
C13_AccountResolvesToPrimaryContactOrNull ==
    ( /\ inv[1].pc = "done"
      /\ inv[1].handler = "_getContactLookupValueFromCustomerField"
      /\ ~inv[1].rejected
      /\ form.customer # [ type |-> "object", isNull |-> TRUE ]
      /\ form.customer.items # << >>
      /\ form.customer.items[1].fields.entityType = "account" )
    => LET primary ==
               accounts[form.customer.items[1].fields.id]
                 .fields.primarycontactid
       IN  /\ inv[1].fetches = 1
           /\ IF primary = [ type |-> "object", isNull |-> TRUE ]
              THEN inv[1].resolved = [ type |-> "object", isNull |-> TRUE ]
              ELSE inv[1].resolved =
                     [ type |-> "object",
                       items |-> << [ type |-> "object",
                                      fields |->
                                        [ id |-> primary.fields.contactid,
                                          name |-> primary.fields.fullname,
                                          entityType |-> "contact" ] ] >> ]

\* C14: whenever populateContactOnCustomerChange of the connector script is
\* invoked with a valid execution context on a case form that has the
\* customer and the contact field, and the customer field is empty or holds
\* a contact, the handler ends at once with the contact field set to null,
\* no retrieval issued and no error dialog.
C14_NoAccountSetsContactToNull ==
    [][ \A h \in Handlers :
          ( /\ registered = "caseFormCustomerContactConnector"
            /\ inv[h].pc = "idle"
            /\ inv'[h].handler = "populateContactOnCustomerChange"
            /\ inv'[h].executionContext
                 = [ type |-> "object",
                     fields |-> [ getFormContext |-> "function" ] ]
            /\ form'.entityTypeName = "incident"
            /\ form'.hasContact
            /\ form'.hasCustomer
            /\ \/ form'.customer = [ type |-> "object", isNull |-> TRUE ]
               \/ form'.customer = [ type |-> "object", items |-> << >> ]
               \/ form'.customer.items[1].fields.entityType = "contact" )
          => /\ inv'[h].pc = "done"
             /\ form'.contact = [ type |-> "object", isNull |-> TRUE ]
             /\ inv'[h].fetches = 0
             /\ inv'[h].fired = 1
             /\ inv'[h].dialogs = 0
      ]_vars

\* the first invocation had populated the contact field from an account, the
\* second one, for a customer that is a contact, has cleared it
C14_Witness ==
    /\ registered = "caseFormCustomerContactConnector"
    /\ inv[1].pc = "done"
    /\ inv[1].retrieval = "resolved"
    /\ inv[1].resolved # [ type |-> "object", isNull |-> TRUE ]
    /\ inv[2].pc = "done"
    /\ inv[2].handler = "populateContactOnCustomerChange"
    /\ inv[2].dialogs = 0
    /\ inv[2].fetches = 0
    /\ form.customer # [ type |-> "object", isNull |-> TRUE ]
    /\ form.customer.items # << >>
    /\ form.customer.items[1].fields.entityType = "contact"
    /\ form.contact = [ type |-> "object", isNull |-> TRUE ]

\* C15: in the caseFormAutomaticContactPopulation variants, resolving a
\* customer field that is null or holds a contact yields the value of the
\* customer field itself, and no retrieval is issued.
C15_NoAccountPassesCustomerThrough ==
    ( /\ inv[1].pc = "done"
      /\ inv[1].handler = "_getContactLookupValueFromCustomerField"
      /\ registered \in { "caseFormAutomaticContactPopulation (use strict)",
                          "caseFormAutomaticContactPopulation" }
      /\ \/ form.customer = [ type |-> "object", isNull |-> TRUE ]
         \/ /\ form.customer # [ type |-> "object", isNull |-> TRUE ]
            /\ form.customer.items # << >>
            /\ form.customer.items[1].fields.entityType = "contact" )
    => /\ inv[1].resolved = form.customer
       /\ inv[1].fetches = 0
       /\ ~inv[1].rejected

\* a customer that is a contact has been resolved to the customer lookup
C15_Witness ==
    /\ inv[1].pc = "done"
    /\ inv[1].handler = "_getContactLookupValueFromCustomerField"
    /\ registered = "caseFormAutomaticContactPopulation"
    /\ form.customer # [ type |-> "object", isNull |-> TRUE ]
    /\ form.customer.items # << >>
    /\ form.customer.items[1].fields.entityType = "contact"
    /\ inv[1].resolved = form.customer
    /\ inv[1].fetches = 0

\* C16: whenever populateContactOnCustomerChange of the "use strict" variant
\* of caseFormAutomaticContactPopulation has run with an execution context
\* that exposes getFormContext on a case form that has the contact field, it
\* has set the contact field, fired its change event and opened no error
\* dialog.
C16_StrictVariantPopulates ==
    \A h \in Handlers :
        ( /\ registered = "caseFormAutomaticContactPopulation (use strict)"
          /\ inv[h].pc = "done"
          /\ inv[h].handler = "populateContactOnCustomerChange"
          /\ inv[h].executionContext
               = [ type |-> "object",
                   fields |-> [ getFormContext |-> "function" ] ]
          /\ form.entityTypeName = "incident"
          /\ form.hasContact
          /\ form.hasCustomer )
        => /\ inv[h].setters = 1
           /\ inv[h].fired = 1
           /\ inv[h].dialogs = 0

\* C17: with the account store fixed, once a customer value has been
\* resolved, every later resolution of the same customer value yields the
\* same contact lookup.
C17_ResolveIsIdempotent ==
    [][ \A v \in DOMAIN resolvedFor :
          resolvedFor[v] # [ type |-> "undefined" ]
          => resolvedFor'[v] = resolvedFor[v]
      ]_vars

\* the same account has been resolved twice, to its primary contact
C17_Witness ==
    /\ inv[1].pc = "done"
    /\ inv[2].pc = "done"
    /\ inv[1].retrieval = "resolved"
    /\ inv[2].retrieval = "resolved"
    /\ inv[1].read = inv[2].read
    /\ inv[1].resolved # [ type |-> "object", isNull |-> TRUE ]
    /\ inv[1].resolved = inv[2].resolved
    /\ resolvedFor[inv[1].read] = inv[1].resolved

\* C18: once every invocation of populateContactOnCustomerChange of the
\* connector script that a change of the customer field triggered has ended,
\* none of them with an error, the contact field holds the value resolved
\* from the customer value the form holds then.
C18_ContactConvergesToFinalCustomer ==
    ( /\ registered = "caseFormCustomerContactConnector"
      /\ \E h \in Handlers : inv[h].pc = "done"
      /\ \A h \in Handlers :
           /\ inv[h].pc # "awaiting"
           /\ inv[h].pc = "done" =>
                /\ inv[h].handler = "populateContactOnCustomerChange"
                /\ inv[h].dialogs = 0 )
    => IF /\ form.customer # [ type |-> "object", isNull |-> TRUE ]
          /\ form.customer.items # << >>
          /\ form.customer.items[1].fields.entityType = "account"
       THEN LET primary ==
                    accounts[form.customer.items[1].fields.id]
                      .fields.primarycontactid
            IN  IF primary = [ type |-> "object", isNull |-> TRUE ]
                THEN form.contact = [ type |-> "object", isNull |-> TRUE ]
                ELSE form.contact.items[1].fields.id
                       = primary.fields.contactid
       ELSE form.contact = [ type |-> "object", isNull |-> TRUE ]

\* C19, as stated: when updateAvailableChannelsSection is invoked with a
\* valid execution context on a form that is not a case form or that lacks
\* the contact field, the e-mail field or the contact quick view form, the
\* evaluation ends at its start: the error is reported, no contact is
\* retrieved and no visibility or requirement level is changed.
C19_MissingElementDetectedAtStart ==
    [][ \A h \in Handlers :
          ( /\ registered = "caseFormAvailableCommunicationChannelsUpdate"
            /\ inv[h].pc = "idle"
            /\ inv'[h].handler = "updateAvailableChannelsSection"
            /\ inv'[h].executionContext
                 = [ type |-> "object",
                     fields |-> [ getFormContext |-> "function" ] ]
            /\ \/ form'.entityTypeName # "incident"
               \/ ~form'.hasContact
               \/ ~form'.hasEmail
               \/ ~form'.hasQuickView )
          => /\ inv'[h].pc = "done"
             /\ inv'[h].dialogs = 1
             /\ inv'[h].fetches = 0
             /\ form'.emailVisible = form.emailVisible
             /\ form'.emailRequired = form.emailRequired
             /\ form'.quickViewVisible = form.quickViewVisible
             /\ form'.mobileControlVisible = form.mobileControlVisible
             /\ form'.emailControlVisible = form.emailControlVisible
      ]_vars

\* C19, amended: a form that is not a case form or that lacks the contact or
\* the e-mail field ends the evaluation at its start, with the error
\* reported, no contact retrieved and no visibility or requirement level
\* changed. On a case form that has both fields but lacks the contact quick
\* view form, no step of the evaluation changes a visibility or requirement
\* level and the evaluation ends with the error reported, but a populated
\* contact field is retrieved first.
C19_MissingFieldDetectedAtStart ==
    [][ \A h \in Handlers :
          ( /\ registered = "caseFormAvailableCommunicationChannelsUpdate"
            /\ inv'[h] # inv[h]
            /\ inv'[h].handler = "updateAvailableChannelsSection"
            /\ inv'[h].executionContext
                 = [ type |-> "object",
                     fields |-> [ getFormContext |-> "function" ] ] )
          => /\ ( \/ form'.entityTypeName # "incident"
                  \/ ~form'.hasContact
                  \/ ~form'.hasEmail )
                => /\ inv[h].pc = "idle"
                   /\ inv'[h].pc = "done"
                   /\ inv'[h].dialogs = 1
                   /\ inv'[h].fetches = 0
                   /\ form'.emailVisible = form.emailVisible
                   /\ form'.emailRequired = form.emailRequired
                   /\ form'.quickViewVisible = form.quickViewVisible
                   /\ form'.mobileControlVisible = form.mobileControlVisible
                   /\ form'.emailControlVisible = form.emailControlVisible
             /\ ( /\ form'.entityTypeName = "incident"
                  /\ form'.hasContact
                  /\ form'.hasEmail
                  /\ ~form'.hasQuickView )
                => /\ form'.emailVisible = form.emailVisible
                   /\ form'.emailRequired = form.emailRequired
                   /\ form'.quickViewVisible = form.quickViewVisible
                   /\ form'.mobileControlVisible = form.mobileControlVisible
                   /\ form'.emailControlVisible = form.emailControlVisible
                   /\ inv'[h].pc = "done" => inv'[h].dialogs = 1
                   /\ ( /\ inv[h].pc = "idle"
                        /\ form'.contact # [ type |-> "object",
                                             isNull |-> TRUE ]
                        /\ form'.contact.items # << >> )
                      => /\ inv'[h].pc = "awaiting"
                         /\ inv'[h].fetches = 1
                         /\ inv'[h].dialogs = 0
      ]_vars

\* on a case form without the quick view form, the contact has been retrieved
\* before the missing quick view was reported
C19_Witness ==
    \E h \in Handlers :
        /\ registered = "caseFormAvailableCommunicationChannelsUpdate"
        /\ form.entityTypeName = "incident"
        /\ form.hasContact
        /\ form.hasEmail
        /\ ~form.hasQuickView
        /\ inv[h].pc = "done"
        /\ inv[h].retrieval = "resolved"
        /\ inv[h].fetches = 1
        /\ inv[h].dialogs = 1
        /\ form.emailVisible
        /\ form.emailRequired = "none"

\* C20: whenever an evaluation of updateAvailableChannelsSection or of a
\* handler of the connector script ends after its execution context was
\* invalid, a form guard failed or its retrieval failed, it has opened the
\* error dialog exactly once, has invoked no setter of a form value,
\* visibility or requirement level, and has not rejected.
C20_FailureIsReportedOnceAndLeavesTheForm ==
    [][ \A h \in Handlers :
          ( /\ registered \in { "caseFormAvailableCommunicationChannelsUpdate",
                                "caseFormCustomerContactConnector" }
            /\ inv[h].pc # "done"
            /\ inv'[h].pc = "done"
            /\ \/ inv'[h].executionContext
                    # [ type |-> "object",
                        fields |-> [ getFormContext |-> "function" ] ]
               \/ form'.entityTypeName # "incident"
               \/ ~form'.hasContact
               \/ /\ registered
                       = "caseFormAvailableCommunicationChannelsUpdate"
                  /\ ~form'.hasEmail \/ ~form'.hasQuickView
               \/ inv'[h].retrieval = "rejected" )
          => /\ inv'[h].dialogs = 1
             /\ inv'[h].setters = 0
             /\ inv'[h].fired = 0
             /\ ~inv'[h].rejected
             /\ form'.contactVisible = form.contactVisible
             /\ form'.contactRequired = form.contactRequired
             /\ form'.emailVisible = form.emailVisible
             /\ form'.emailRequired = form.emailRequired
             /\ form'.quickViewVisible = form.quickViewVisible
             /\ form'.mobileControlVisible = form.mobileControlVisible
             /\ form'.emailControlVisible = form.emailControlVisible
             /\ registered = "caseFormCustomerContactConnector"
                  => form'.contact = form.contact
      ]_vars

\* an evaluation whose retrieval was rejected has ended with one error dialog
\* on a form that an earlier evaluation had updated
C20_Witness ==
    \E h, g \in Handlers :
        /\ registered = "caseFormAvailableCommunicationChannelsUpdate"
        /\ inv[g].pc = "done"
        /\ inv[g].dialogs = 0
        /\ inv[g].setters > 0
        /\ inv[h].pc = "done"
        /\ inv[h].retrieval = "rejected"
        /\ inv[h].dialogs = 1
        /\ inv[h].setters = 0
        /\ ~form.emailVisible

----------------------------------------------------------------------------
\* C21: evaluating either rule writes nothing. A plug-in step leaves the
\* contact table and every stored case as they were; the store an evaluation
\* read is the store before the step; a step that ends in a violation or an
\* error, and every step of the contact validation, leaves the case store
\* unchanged; after a pass of the single-active-case rule the only change is
\* the platform's commit of the created case.
C21_RuleEvaluationIsReadOnly ==
    [][ /\ contacts' = contacts
        /\ \A i \in StoredIds(store) : store'[i] = store[i]
        /\ registered = "IncidentPrimaryContactValidation" => store' = store
        /\ registered = "SingleActiveCaseEnforcement" =>
             /\ sacBefore' = store
             /\ sacOutcome' # "pass" => store' = store
             /\ sacOutcome' = "pass" =>
                  store' = CommitCreate(store, sacInput'.target) ]_vars

\* a creation was rejected over a stored active case, and the store is the
\* one the evaluation found
C21_Witness ==
    /\ registered = "SingleActiveCaseEnforcement"
    /\ sacOutcome = "violation"
    /\ sacMatched \in StoredIds(store)
    /\ store[sacMatched].statecode = caseActiveStatusCode
    /\ store = sacBefore

----------------------------------------------------------------------------
\* C23: the guards of the single-active-case plug-in fail fast. A null plug-in
\* context ends in an ArgumentNullException, a context without a Target in an
\* ArgumentException, a Target whose logical name is not "incident" in an
\* ArgumentException; in each case no query is issued and the outcome is an
\* error, neither a pass nor a violation.
C23_GuardsFailFast ==
    ( registered = "SingleActiveCaseEnforcement" /\ sacOutcome # "none" ) =>
        /\ sacInput.contextIsNull =>
             /\ sacException = "ArgumentNullException"
             /\ sacOutcome = "error"
             /\ sacQueries = 0
             /\ sacResult = [ none |-> TRUE ]
        /\ ( ~sacInput.contextIsNull /\ sacInput.target = [ null |-> TRUE ] ) =>
             /\ sacException = "ArgumentException"
             /\ sacOutcome = "error"
             /\ sacQueries = 0
             /\ sacResult = [ none |-> TRUE ]
        /\ ( /\ ~sacInput.contextIsNull
             /\ sacInput.target # [ null |-> TRUE ]
             /\ sacInput.target.logicalName # "incident" ) =>
             /\ sacException = "ArgumentException"
             /\ sacOutcome = "error"
             /\ sacQueries = 0
             /\ sacResult = [ none |-> TRUE ]

\* a Target of another entity type was refused while the store held cases
C23_Witness ==
    /\ registered = "SingleActiveCaseEnforcement"
    /\ ~sacInput.contextIsNull
    /\ sacInput.target # [ null |-> TRUE ]
    /\ sacInput.target.logicalName = "account"
    /\ sacException = "ArgumentException"
    /\ sacMessage = [ text |-> "Entity must be of type incident" ]
    /\ StoredIds(store) # {}
    /\ store = sacBefore

----------------------------------------------------------------------------
\* C27: a target case without a customer reference ends the single-active-case
\* plug-in in an error that is neither a pass nor a violation, before any
\* query is issued.
C27_MissingCustomerIsAnError ==
    ( /\ registered = "SingleActiveCaseEnforcement"
      /\ sacOutcome # "none"
      /\ ~sacInput.contextIsNull
      /\ sacInput.target # [ null |-> TRUE ]
      /\ sacInput.target.logicalName = "incident"
      /\ sacInput.target.customerid = [ null |-> TRUE ] ) =>
        /\ sacOutcome = "error"
        /\ sacException = "NullReferenceException"
        /\ sacQueries = 0
        /\ sacResult = [ none |-> TRUE ]
        /\ store = sacBefore

\* an incident without a customer was submitted while the store held an
\* active case
C27_Witness ==
    /\ registered = "SingleActiveCaseEnforcement"
    /\ ~sacInput.contextIsNull
    /\ sacInput.target # [ null |-> TRUE ]
    /\ sacInput.target.logicalName = "incident"
    /\ sacInput.target.customerid = [ null |-> TRUE ]
    /\ sacOutcome = "error"
    /\ \E i \in StoredIds(store) : store[i].statecode = caseActiveStatusCode

----------------------------------------------------------------------------
\* C28: when the organization service answers the active-case query with a
\* null collection, the plug-in reads it as "no active case": the execution
\* passes without an exception and without a matched case, and the case is
\* created, whatever the store holds.
C28_NullCollectionPasses ==
    ( registered = "SingleActiveCaseEnforcement"
      /\ sacResult = [ null |-> TRUE ] ) =>
        /\ sacOutcome = "pass"
        /\ sacException = "none"
        /\ sacMessage = [ null |-> TRUE ]
        /\ sacMatched = 0
        /\ sacQueries = 1
        /\ store = CommitCreate(sacBefore, sacInput.target)

\* the query was answered with null while the store held an active case of
\* the target's customer, and the creation went through
C28_Witness ==
    /\ registered = "SingleActiveCaseEnforcement"
    /\ sacResult = [ null |-> TRUE ]
    /\ sacOutcome = "pass"
    /\ \E i \in StoredIds(sacBefore) :
         /\ sacBefore[i].statecode = caseActiveStatusCode
         /\ sacBefore[i].customerid.id = sacInput.target.customerid.id
    /\ StoredIds(store) # StoredIds(sacBefore)

----------------------------------------------------------------------------
\* C29: the query excludes no case id. When the plug-in is evaluated on an
\* update whose target is stored as an active case and carries the customer
\* that case already has, and the query succeeds, the evaluation rejects and
\* the update is not committed, even when the target is that customer's only
\* active case.
C29_UpdateOfActiveCaseMatchesItself ==
    ( /\ registered = "SingleActiveCaseEnforcement (Update)"
      /\ sacOutcome # "none"
      /\ ~sacFault
      /\ sacInput.target.customerid # [ null |-> TRUE ]
      /\ sacBefore[sacInput.target.id].statecode = caseActiveStatusCode
      /\ sacBefore[sacInput.target.id].customerid.id =
            sacInput.target.customerid.id ) =>
        /\ sacOutcome = "violation"
        /\ sacException = "InvalidPluginExecutionException"
        /\ sacMatched \in StoredIds(sacBefore)
        /\ store = sacBefore

\* an update of a customer's only active case was rejected over that case
C29_Witness ==
    /\ registered = "SingleActiveCaseEnforcement (Update)"
    /\ sacOutcome = "violation"
    /\ sacMatched = sacInput.target.id
    /\ \A i \in StoredIds(sacBefore) :
         ( /\ sacBefore[i].statecode = caseActiveStatusCode
           /\ sacBefore[i].customerid.id = sacInput.target.customerid.id )
         => i = sacInput.target.id

----------------------------------------------------------------------------
----------------------------------------------------------------------------
\* C22: a customer reference whose entity type is neither account nor contact
\* never produces an error. The contact validation passes without retrieving
\* anything, whatever the contact is; on a valid case form the connector
\* resolves the contact to null without a retrieval and without an error
\* dialog, and updateContactField leaves the contact field visible and
\* optional.
C22_OtherCustomerTypeIsNoError ==
    [][ /\ ( /\ registered = "IncidentPrimaryContactValidation"
             /\ ~ccInput'.contextIsNull
             /\ ccInput'.target # [ null |-> TRUE ]
             /\ ccCase'.Customer # [ null |-> TRUE ]
             /\ ccCase'.Customer.logicalName \notin { "account", "contact" } )
            => /\ ccOutcome' = "pass"
               /\ ccFetches' = 0
               /\ ccMessage' = [ null |-> TRUE ]
        /\ \A h \in Handlers :
             ( /\ registered = "caseFormCustomerContactConnector"
               /\ inv[h].pc = "idle"
               /\ inv'[h].pc # "idle"
               /\ inv'[h].executionContext =
                    [ type |-> "object",
                      fields |-> [ getFormContext |-> "function" ] ]
               /\ form'.entityTypeName = "incident"
               /\ form'.hasContact
               /\ form'.hasCustomer
               /\ form'.customer # [ type |-> "object", isNull |-> TRUE ]
               /\ form'.customer.items # << >>
               /\ form'.customer.items[1].fields.entityType
                     \notin { "account", "contact" } )
             => /\ inv'[h].pc = "done"
                /\ inv'[h].dialogs = 0
                /\ inv'[h].failure = "none"
                /\ ~inv'[h].rejected
                /\ inv'[h].fetches = 0
                /\ inv'[h].handler = "populateContactOnCustomerChange" =>
                     /\ inv'[h].resolved =
                          [ type |-> "object", isNull |-> TRUE ]
                     /\ form'.contact = [ type |-> "object", isNull |-> TRUE ]
                /\ inv'[h].handler = "updateContactField" =>
                     /\ form'.contactVisible
                     /\ form'.contactRequired = "none"
      ]_vars

\* the customer was an account and the contact field required; the customer
\* was then changed to a lead, and updateContactField made the contact field
\* optional again
C22_Witness ==
    /\ registered = "caseFormCustomerContactConnector"
    /\ inv[1].handler = "updateContactField"
    /\ inv[1].pc = "done"
    /\ inv[1].dialogs = 0
    /\ inv[1].read =
         [ type |-> "object",
           items |-> << [ type |-> "object",
                          fields |-> [ id |-> 1, name |-> "Acme",
                                       entityType |-> "account" ] ] >> ]
    /\ inv[2].handler = "updateContactField"
    /\ inv[2].pc = "done"
    /\ inv[2].dialogs = 0
    /\ form.customer =
         [ type |-> "object",
           items |-> << [ type |-> "object",
                          fields |-> [ id |-> 5, name |-> "Lee",
                                       entityType |-> "lead" ] ] >> ]
    /\ form.contactVisible
    /\ form.contactRequired = "none"

----------------------------------------------------------------------------
\* C25: whenever an evaluation of updateAvailableChannelsSection ends without
\* an error, the contact quick view is visible exactly when at least one
\* channel of the contact it used is available; the mobile phone control of
\* the quick view, when the quick view has one, is visible exactly when the
\* mobile phone is available, and likewise the e-mail control and the e-mail
\* address; the quick view and the e-mail field of the case are never both
\* visible.
C25_QuickViewFollowsChannels ==
    [][ \A h \in Handlers :
          ( /\ inv[h].pc # "done"
            /\ inv'[h].pc = "done"
            /\ inv'[h].handler = "updateAvailableChannelsSection"
            /\ inv'[h].dialogs = 0 )
          => LET contact == IF inv'[h].fetches = 0
                            THEN [ type |-> "undefined" ]
                            ELSE contactRecords[inv'[h].fetchId]
                 channels == _getContactMethodAvailability(contact)
             IN  /\ form'.quickViewVisible
                      <=> (channels.mobilePhone \/ channels.emailAddress)
                 /\ form'.hasMobileControl =>
                      (form'.mobileControlVisible <=> channels.mobilePhone)
                 /\ form'.hasEmailControl =>
                      (form'.emailControlVisible <=> channels.emailAddress)
                 /\ ~form'.hasMobileControl =>
                      form'.mobileControlVisible = form.mobileControlVisible
                 /\ ~form'.hasEmailControl =>
                      form'.emailControlVisible = form.emailControlVisible
                 /\ ~( form'.quickViewVisible /\ form'.emailVisible )
      ]_vars

\* on a form whose quick view has no e-mail control, an evaluation for a
\* contact with a mobile phone only has shown the quick view and its mobile
\* phone control and hidden the e-mail field
C25_Witness ==
    \E h \in Handlers :
        /\ inv[h].pc = "done"
        /\ inv[h].handler = "updateAvailableChannelsSection"
        /\ inv[h].dialogs = 0
        /\ inv[h].fetches = 1
        /\ inv[h].resolved = [ mobilePhone |-> TRUE, emailAddress |-> FALSE ]
        /\ ~form.hasEmailControl
        /\ form.quickViewVisible
        /\ form.mobileControlVisible
        /\ ~form.emailVisible

----------------------------------------------------------------------------
\* C26: when updateAvailableChannelsSection is invoked with a valid execution
\* context on a case form that has the contact field, the e-mail field and
\* the quick view, and the contact field is empty (null or an empty array),
\* the evaluation ends at once without a retrieval and without an error, with
\* both channels unavailable; it hides the quick view and shows and requires
\* the e-mail field.
C26_EmptyContactRequiresEmail ==
    [][ \A h \in Handlers :
          ( /\ inv[h].pc = "idle"
            /\ inv'[h].pc # "idle"
            /\ inv'[h].handler = "updateAvailableChannelsSection"
            /\ inv'[h].executionContext =
                 [ type |-> "object",
                   fields |-> [ getFormContext |-> "function" ] ]
            /\ form'.entityTypeName = "incident"
            /\ form'.hasContact
            /\ form'.hasEmail
            /\ form'.hasQuickView
            /\ \/ form'.contact = [ type |-> "object", isNull |-> TRUE ]
               \/ form'.contact = [ type |-> "object", items |-> << >> ] )
          => /\ inv'[h].pc = "done"
             /\ inv'[h].fetches = 0
             /\ inv'[h].dialogs = 0
             /\ inv'[h].resolved =
                  [ mobilePhone |-> FALSE, emailAddress |-> FALSE ]
             /\ ~form'.quickViewVisible
             /\ form'.emailVisible
             /\ form'.emailRequired = "required"
      ]_vars

\* a contact with a mobile phone was evaluated first; the contact field was
\* then emptied, and the evaluation hid the quick view and required the
\* e-mail field
C26_Witness ==
    /\ inv[1].pc = "done"
    /\ inv[1].handler = "updateAvailableChannelsSection"
    /\ inv[1].fetches = 1
    /\ inv[1].dialogs = 0
    /\ inv[1].resolved = [ mobilePhone |-> TRUE, emailAddress |-> FALSE ]
    /\ inv[2].pc = "done"
    /\ inv[2].handler = "updateAvailableChannelsSection"
    /\ inv[2].fetches = 0
    /\ inv[2].dialogs = 0
    /\ form.contact = [ type |-> "object", items |-> << >> ]
    /\ ~form.quickViewVisible
    /\ form.emailVisible
    /\ form.emailRequired = "required"

----------------------------------------------------------------------------
\* C30: once every invocation of updateAvailableChannelsSection has ended
\* without an error, whatever the order in which the retrievals settled, the
\* e-mail field and the quick view correspond to the channels of the contact
\* the contact field holds: with no channel available (or no contact) the
\* e-mail field is visible and required and the quick view hidden, otherwise
\* the e-mail field is hidden and optional and the quick view visible.
C30_ChannelsConvergeToCurrentContact ==
    ( /\ registered = "caseFormAvailableCommunicationChannelsUpdate"
      /\ \A h \in Handlers :
           /\ inv[h].pc = "done"
           /\ inv[h].handler = "updateAvailableChannelsSection"
           /\ inv[h].dialogs = 0 )
    => LET held == IF \/ form.contact = [ type |-> "object", isNull |-> TRUE ]
                      \/ form.contact = [ type |-> "object", items |-> << >> ]
                   THEN [ type |-> "undefined" ]
                   ELSE contactRecords[form.contact.items[1].fields.id]
           channels == _getContactMethodAvailability(held)
           none == ~channels.mobilePhone /\ ~channels.emailAddress
       IN  /\ form.emailVisible <=> none
           /\ form.emailRequired = (IF none THEN "required" ELSE "none")
           /\ form.quickViewVisible <=> ~none

====
